---- MODULE Spec2Model ----
(***************************************************************************)
(* A model of L5K-Tuner's parser core (src/L5KTuner): the lexical helpers  *)
(* of strings.py and utils.py, the line-by-line state machine of           *)
(* L5KParser._parse_structures, and the second-pass resolver               *)
(* L5KParser._resolve_nested_types.                                        *)
(*                                                                         *)
(* Text.  A Python string is modelled as a sequence of atoms.  An atom is  *)
(* either one punctuation character, one unit of white space, a line       *)
(* break, or a word: a maximal run of \w characters such as DINT, MyTag,   *)
(* Description or 123.  The two-character token := is one atom, and so is  *)
(* a run of asterisks.  No helper of the program ever cuts a string inside *)
(* a word, so every slice the code takes is a slice of the atom sequence.  *)
(***************************************************************************)
EXTENDS Integers, Sequences, FiniteSets, TLC

\* ------------------------------------------------------------------------
\* Atoms
\* ------------------------------------------------------------------------
NL == "\n"
TAB == "\t"
Ws == {" ", NL, TAB}
\* a run of five or more asterisks, and a shorter one
StarRuns == {"*****", "****"}
Punct == {"(", ")", "[", "]", "{", "}", ",", ";", ":", ":=", "\"", "'", "$", ".", "\\"}
DigitWords == {"0", "1", "2", "3", "5", "7", "8", "9"}

IsWs(a) == a \in Ws
IsWord(a) == a \notin Ws /\ a \notin Punct /\ a \notin StarRuns
\* [A-Za-z_]\w* : a word that does not begin with a digit
IsIdent(a) == IsWord(a) /\ a \notin DigitWords
\* str.isdigit() on a one-word string
IsDigits(a) == a \in DigitWords

Min(a, b) == IF a < b THEN a ELSE b
Max(a, b) == IF a > b THEN a ELSE b

\* s[a..b] as Python's s[a-1:b], empty when the range is empty
Slice(s, a, b) == IF a > b THEN <<>> ELSE SubSeq(s, a, b)
From(s, a) == Slice(s, a, Len(s))
Has(s, a) == \E i \in 1..Len(s) : s[i] = a

MinOf(S) == CHOOSE x \in S : \A y \in S : x <= y
MaxOf(S) == CHOOSE x \in S : \A y \in S : y <= x

\* smallest index >= i whose atom is not white space, Len(s)+1 if none
SkipWs(s, i) ==
    IF i > Len(s) THEN i
    ELSE LET js == {j \in i..Len(s) : ~IsWs(s[j])} IN
         IF js = {} THEN Len(s) + 1 ELSE MinOf(js)

\* largest index <= i whose atom is not white space, 0 if none
SkipWsBack(s, i) ==
    IF i < 1 THEN i
    ELSE LET js == {j \in 1..i : ~IsWs(s[j])} IN
         IF js = {} THEN 0 ELSE MaxOf(js)

\* A for loop over the characters s[lo..hi]: the loop's variables st after
\* them, Step being the loop body.  The range is halved and the first half is
\* evaluated before the second.
RECURSIVE Fold(_, _, _, _, _)
Fold(Step(_, _, _), s, lo, hi, st) ==
    IF lo > hi THEN st
    ELSE IF lo = hi THEN Step(st, s, lo)
    ELSE LET mid == (lo + hi) \div 2
             left == Fold(Step, s, lo, mid, st)
         IN IF left = left THEN Fold(Step, s, mid + 1, hi, left) ELSE st

\* A local assignment v = value, F being the code that follows it
With(value, F(_)) == F(value)

LStrip(s) == From(s, SkipWs(s, 1))
RStrip(s) == Slice(s, 1, SkipWsBack(s, Len(s)))
Strip(s) == LStrip(RStrip(s))

\* str.endswith / str.startswith for a one-atom needle
EndsWith(s, a) == Len(s) > 0 /\ s[Len(s)] = a
EndsWith2(s, a, b) == Len(s) > 1 /\ s[Len(s) - 1] = a /\ s[Len(s)] = b
StartsWith(s, a) == Len(s) > 0 /\ s[1] = a

\* " ".join(parts) and "\n".join(parts)
RECURSIVE JoinWith(_, _)
JoinWith(parts, sep) ==
    IF Len(parts) = 0 THEN <<>>
    ELSE IF Len(parts) = 1 THEN parts[1]
    ELSE parts[1] \o <<sep>> \o JoinWith(Tail(parts), sep)

\* str.splitlines() for text whose only line break is "\n"
RECURSIVE SplitLines(_)
SplitLines(s) ==
    IF Len(s) = 0 THEN <<>>
    ELSE LET k == CHOOSE j \in 1..(Len(s) + 1) :
                      /\ (j = Len(s) + 1 \/ s[j] = NL)
                      /\ \A m \in 1..(j - 1) : s[m] # NL
         IN <<Slice(s, 1, k - 1)>> \o SplitLines(From(s, k + 1))

\* ------------------------------------------------------------------------
\* utils.paren_delta: net '(' minus ')' outside double-quoted strings; a
\* backslash inside a string escapes the next character.
\* ------------------------------------------------------------------------
ParenStep(st, line, i) ==
    LET ch == line[i] IN
    IF st.in_str THEN
         IF st.esc THEN [st EXCEPT !.esc = FALSE]
         ELSE IF ch = "\\" THEN [st EXCEPT !.esc = TRUE]
         ELSE IF ch = "\"" THEN [st EXCEPT !.in_str = FALSE]
         ELSE st
    ELSE IF ch = "\"" THEN [st EXCEPT !.in_str = TRUE]
    ELSE IF ch = "(" THEN [st EXCEPT !.delta = @ + 1]
    ELSE IF ch = ")" THEN [st EXCEPT !.delta = @ - 1]
    ELSE st

paren_delta(line) ==
    Fold(ParenStep, line, 1, Len(line), [delta |-> 0, in_str |-> FALSE, esc |-> FALSE]).delta

\* ------------------------------------------------------------------------
\* strings.first_outside_parens: index of the first occurrence of a token
\* outside (), [], {} and outside '...' and "..." (with $ escaping the next
\* character inside a string); 0 stands for Python's -1.
\* ------------------------------------------------------------------------
\* the loop body; st.found is the index returned, 0 while the loop runs
FopStep(st, s, i) ==
    LET ch == s[i] IN
    IF st.found # 0 THEN st
    ELSE IF st.in_sq THEN
         IF st.esc THEN [st EXCEPT !.esc = FALSE]
         ELSE IF ch = "$" THEN [st EXCEPT !.esc = TRUE]
         ELSE IF ch = "'" THEN [st EXCEPT !.in_sq = FALSE]
         ELSE st
    ELSE IF st.in_dq THEN
         IF st.esc THEN [st EXCEPT !.esc = FALSE]
         ELSE IF ch = "$" THEN [st EXCEPT !.esc = TRUE]
         ELSE IF ch = "\"" THEN [st EXCEPT !.in_dq = FALSE]
         ELSE st
    ELSE IF ch = "'" THEN [st EXCEPT !.in_sq = TRUE]
    ELSE IF ch = "\"" THEN [st EXCEPT !.in_dq = TRUE]
    ELSE IF ch \in {"(", "[", "{"} THEN [st EXCEPT !.depth = @ + 1]
    ELSE IF ch \in {")", "]", "}"} THEN [st EXCEPT !.depth = IF @ > 0 THEN @ - 1 ELSE @]
    ELSE IF st.depth = 0 /\ ch = st.target THEN [st EXCEPT !.found = i]
    ELSE st

first_outside_parens(s, target) ==
    Fold(FopStep, s, 1, Len(s),
         [found |-> 0, target |-> target, depth |-> 0, in_sq |-> FALSE, in_dq |-> FALSE,
          esc |-> FALSE]).found

\* ------------------------------------------------------------------------
\* strings.split_outer_attrs: the scan counts every '(' and ')' of the text,
\* also those inside quoted strings, and remembers the last '(' met at
\* depth 0.
\* ------------------------------------------------------------------------
\* str.rfind(")"), 0 for -1
RFind(s, a) ==
    LET js == {j \in 1..Len(s) : s[j] = a} IN IF js = {} THEN 0 ELSE MaxOf(js)

\* the loop of lines 88-94: depth and start after each character, start = 0 for None
AttrStep(st, s, i) ==
    IF s[i] = "(" THEN [depth |-> st.depth + 1, start |-> IF st.depth = 0 THEN i ELSE st.start]
    ELSE IF s[i] = ")" THEN [st EXCEPT !.depth = @ - 1]
    ELSE st

split_outer_attrs(left) ==
    With(RStrip(left), LAMBDA s0 :
    With(RFind(s0, ")"), LAMBDA idx_last :
    With(IF idx_last # 0 THEN Slice(s0, 1, idx_last) ELSE s0, LAMBDA s :
    With(Fold(AttrStep, s, 1, Len(s), [depth |-> 0, start |-> 0]), LAMBDA r :
        IF ~EndsWith(s, ")") THEN [prefix |-> left, attrs |-> <<>>]
        ELSE IF r.start # 0 /\ r.depth = 0
             THEN [prefix |-> RStrip(Slice(s, 1, r.start - 1)),
                   attrs |-> Slice(s, r.start + 1, Len(s) - 1)]
             ELSE [prefix |-> left, attrs |-> <<>>]))))

\* ------------------------------------------------------------------------
\* strings.get_desc: RE_DESC = Description\s*:=\s*"([^"]*)" searched in the
\* text; the first match wins, "" when there is none.
\* ------------------------------------------------------------------------
DescWords == {"Description", "description", "DESCRIPTION"}

\* index of the closing quote of a match of RE_DESC that starts at i, else 0
DescMatchAt(s, i) ==
    IF ~(i <= Len(s) /\ s[i] \in DescWords) THEN 0
    ELSE LET a == SkipWs(s, i + 1) IN
         IF ~(a <= Len(s) /\ s[a] = ":=") THEN 0
         ELSE LET q == SkipWs(s, a + 1) IN
              IF ~(q <= Len(s) /\ s[q] = "\"") THEN 0
              ELSE IF \E c \in (q + 1)..Len(s) : s[c] = "\""
                   THEN CHOOSE c \in (q + 1)..Len(s) :
                            s[c] = "\"" /\ \A m \in (q + 1)..(c - 1) : s[m] # "\""
                   ELSE 0

get_desc(text) ==
    With({i \in 1..Len(text) : DescMatchAt(text, i) # 0}, LAMBDA hits :
        IF hits = {} THEN <<>>
        ELSE With(MinOf(hits), LAMBDA i :
             Slice(text, SkipWs(text, SkipWs(text, i + 1) + 1) + 1, DescMatchAt(text, i) - 1)))

\* ------------------------------------------------------------------------
\* patterns.RE_TAG_PREFIX:
\*   ^\s*([A-Za-z_][\w\.]*)\s*(?:(?i:OF)\s+([A-Za-z_][\w\.\[\]:]*))?\s*:\s*(.+?)\s*$
\* ------------------------------------------------------------------------
OfWords == {"OF", "of", "Of", "oF"}

\* largest j >= i with every atom of s[i+1..j] in the class
RunEnd(s, i, class) ==
    LET bad == {j \in (i + 1)..Len(s) : ~(IsWord(s[j]) \/ s[j] \in class)} IN
    IF i >= Len(s) THEN i ELSE IF bad = {} THEN Len(s) ELSE MinOf(bad) - 1

\* \s*:\s*(.+?)\s*$ from position p: the matched type text, or <<>> for no match
TagRest(s, p) ==
    LET q == SkipWs(s, p) IN
    IF ~(q <= Len(s) /\ s[q] = ":") THEN <<>>
    ELSE LET r == SkipWs(s, q + 1) IN
         IF r <= Len(s) THEN Slice(s, r, SkipWsBack(s, Len(s)))
         ELSE IF q + 1 <= Len(s) THEN <<s[Len(s)]>>
         ELSE <<>>

\* the alias ends f (0: no OF group) with which the rest matches after a name ending at e
TagAliasEnds(s, e) ==
    With(SkipWs(s, e + 1), LAMBDA a :
    With(SkipWs(s, a + 1), LAMBDA b :
        (IF a <= Len(s) /\ s[a] \in OfWords /\ a + 1 <= Len(s) /\ IsWs(s[a + 1])
            /\ b <= Len(s) /\ IsIdent(s[b])
         THEN {f \in b..RunEnd(s, b, {".", "[", "]", ":"}) : TagRest(s, f + 1) # <<>>}
         ELSE {})
        \cup (IF TagRest(s, e + 1) # <<>> THEN {0} ELSE {})))

\* the match the regex engine finds first: the longest name, then the OF
\* group with the longest alias, then no OF group
MatchTagPrefix(s) ==
    With(SkipWs(s, 1), LAMBDA p0 :
    IF ~(p0 <= Len(s) /\ IsIdent(s[p0])) THEN [ok |-> FALSE]
    ELSE With([e \in p0..RunEnd(s, p0, {"."}) |-> TagAliasEnds(s, e)], LAMBDA alias_ends :
         With({e \in DOMAIN alias_ends : alias_ends[e] # {}}, LAMBDA ends :
         IF ends = {} THEN [ok |-> FALSE]
         ELSE With(MaxOf(ends), LAMBDA e :
              With(MaxOf(alias_ends[e]), LAMBDA f :
                  [ok |-> TRUE,
                   name |-> Slice(s, p0, e),
                   dtype |-> TagRest(s, IF f = 0 THEN e + 1 ELSE f + 1)])))))

\* ------------------------------------------------------------------------
\* TagBuffer (l5k_parser.py): the statement accumulator
\* ------------------------------------------------------------------------
EmptyTagBuffer == [parts |-> <<>>, depth |-> 0, in_sq |-> FALSE, in_dq |-> FALSE,
                   esc |-> FALSE]

\* A variant of the loop body of feed that takes every `;` outside a string
\* as the end of the statement, whatever the depth; C25 must tell it from
\* the code's.
FeedStepAnyDepth(st, chunk, i) ==
    LET ch == chunk[i]
        b == st.buf
    IN IF b.in_sq THEN
            IF b.esc THEN [st EXCEPT !.buf.esc = FALSE]
            ELSE IF ch = "$" THEN [st EXCEPT !.buf.esc = TRUE]
            ELSE IF ch = "'" THEN [st EXCEPT !.buf.in_sq = FALSE]
            ELSE st
       ELSE IF b.in_dq THEN
            IF b.esc THEN [st EXCEPT !.buf.esc = FALSE]
            ELSE IF ch = "$" THEN [st EXCEPT !.buf.esc = TRUE]
            ELSE IF ch = "\"" THEN [st EXCEPT !.buf.in_dq = FALSE]
            ELSE st
       ELSE IF ch = "'" THEN [st EXCEPT !.buf.in_sq = TRUE]
       ELSE IF ch = "\"" THEN [st EXCEPT !.buf.in_dq = TRUE]
       ELSE IF ch \in {"(", "[", "{"} THEN [st EXCEPT !.buf.depth = @ + 1]
       ELSE IF ch \in {")", "]", "}"} THEN [st EXCEPT !.buf.depth = IF @ > 0 THEN @ - 1 ELSE @]
       ELSE IF ch = ";" THEN [st EXCEPT !.complete = TRUE]
       ELSE st

\* TagBuffer.reset
reset(b) == [b EXCEPT !.parts = <<>>, !.depth = 0, !.in_sq = FALSE, !.in_dq = FALSE,
                      !.esc = FALSE]

\* the body of the for loop of feed: the buffer's scan state and `complete`
FeedStep(st, chunk, i) ==
    LET ch == chunk[i]
        b == st.buf
    IN IF b.in_sq THEN
            IF b.esc THEN [st EXCEPT !.buf.esc = FALSE]
            ELSE IF ch = "$" THEN [st EXCEPT !.buf.esc = TRUE]
            ELSE IF ch = "'" THEN [st EXCEPT !.buf.in_sq = FALSE]
            ELSE st
       ELSE IF b.in_dq THEN
            IF b.esc THEN [st EXCEPT !.buf.esc = FALSE]
            ELSE IF ch = "$" THEN [st EXCEPT !.buf.esc = TRUE]
            ELSE IF ch = "\"" THEN [st EXCEPT !.buf.in_dq = FALSE]
            ELSE st
       ELSE IF ch = "'" THEN [st EXCEPT !.buf.in_sq = TRUE]
       ELSE IF ch = "\"" THEN [st EXCEPT !.buf.in_dq = TRUE]
       ELSE IF ch \in {"(", "[", "{"} THEN [st EXCEPT !.buf.depth = @ + 1]
       ELSE IF ch \in {")", "]", "}"} THEN [st EXCEPT !.buf.depth = IF @ > 0 THEN @ - 1 ELSE @]
       ELSE IF ch = ";" /\ b.depth = 0 THEN [st EXCEPT !.complete = TRUE]
       ELSE st

\* TagBuffer.feed: [buf, complete]
Feed(b, chunk) ==
    Fold(FeedStep, chunk, 1, Len(chunk),
         [buf |-> [b EXCEPT !.parts = Append(@, chunk)], complete |-> FALSE])

\* TagBuffer.flush: the statement; the buffer is EmptyTagBuffer afterwards
Flush(b) == JoinWith(b.parts, " ")

\* ------------------------------------------------------------------------
\* L5KParser._parse_tag_fields: [ok, name, data_type, description, definition]
\* ------------------------------------------------------------------------
\* dtype.split('(', 1)[0].strip()
CutAtParen(dtype) ==
    IF Has(dtype, "(")
    THEN Strip(Slice(dtype, 1, (CHOOSE i \in 1..Len(dtype) :
                                    dtype[i] = "(" /\ \A m \in 1..(i - 1) : dtype[m] # "(") - 1))
    ELSE dtype

\* lines 962-974: the fields, from the prefix and the attributes of the statement
TagFields(sp, m, strip_paren_from_dtype) ==
    With(IF sp.attrs # <<>> THEN sp.prefix \o <<" ", "(">> \o sp.attrs \o <<")">>
         ELSE sp.prefix, LAMBDA def0 :
        [ok |-> TRUE, name |-> m.name,
         data_type |-> IF strip_paren_from_dtype THEN CutAtParen(Strip(m.dtype))
                       ELSE Strip(m.dtype),
         description |-> IF sp.attrs # <<>> THEN get_desc(sp.attrs) ELSE <<>>,
         definition |-> IF EndsWith(def0, ";") THEN def0 ELSE RStrip(def0) \o <<";">>])

parse_tag_fields(buf, strip_paren_from_dtype) ==
    With(Strip(buf), LAMBDA stmt :
    With(first_outside_parens(stmt, ":="), LAMBDA idx_assign :
    With(IF idx_assign = 0 THEN stmt ELSE RStrip(Slice(stmt, 1, idx_assign - 1)), LAMBDA left0 :
    With(first_outside_parens(left0, ","), LAMBDA idx_force :
    With(split_outer_attrs(IF idx_force # 0 THEN RStrip(Slice(left0, 1, idx_force - 1))
                           ELSE left0), LAMBDA sp :
    With(MatchTagPrefix(sp.prefix), LAMBDA m :
        IF ~m.ok THEN [ok |-> FALSE] ELSE TagFields(sp, m, strip_paren_from_dtype)))))))

\* ------------------------------------------------------------------------
\* Insertion-ordered mappings (dict / OrderedDict): the keys in insertion
\* order and the value of each key.  Assigning to a key that is present
\* keeps its position.
\* ------------------------------------------------------------------------
EmptyDict == [keys |-> <<>>, val |-> <<>>]
DictHas(d, k) == k \in DOMAIN d.val
DictPut(d, k, v) ==
    [keys |-> IF DictHas(d, k) THEN d.keys ELSE Append(d.keys, k),
     val |-> (k :> v) @@ d.val]
DictKeys(d) == {d.keys[i] : i \in 1..Len(d.keys)}

\* None for an Optional[str]; a captured text is never empty
None == <<>>

\* ------------------------------------------------------------------------
\* models.py
\* ------------------------------------------------------------------------
Tag(name, data_type, description, definition) ==
    [name |-> name, data_type |-> data_type, description |-> description,
     definition |-> definition]

Program(name, description) == [name |-> name, description |-> description, tags |-> EmptyDict]

\* UDT: the member objects live in objs; members and children map a name to
\* the index of the object, as the Python mappings hold references.
UDT(name) == [name |-> name, description |-> <<>>, family_type |-> <<"NoFamily">>,
              members |-> EmptyDict, objs |-> <<>>]

UDTMember(name, data_type, description, definition) ==
    [name |-> name, data_type |-> data_type, description |-> description,
     definition |-> definition, is_hidden_parent |-> FALSE, is_bit |-> FALSE,
     parent_word |-> None, bit_index |-> -1, name_dims |-> <<>>, children |-> EmptyDict]

\* UDT.add_member for a new object: its index is Len(objs) + 1
add_member(udt, member) ==
    [udt EXCEPT !.objs = Append(@, member),
                !.members = DictPut(@, member.name, Len(udt.objs) + 1)]

\* UDTMember.add_child on object parent_id
add_child(udt, parent_id, child_name, child_id) ==
    [udt EXCEPT !.objs[parent_id].children = DictPut(@, child_name, child_id)]

AOI(name) == [name |-> name, description |-> <<>>, parameters |-> EmptyDict,
              localtags |-> EmptyDict]

AOIParameter(name, data_type, description, definition) ==
    [name |-> name, data_type |-> data_type, description |-> description,
     definition |-> definition, is_bit_alias |-> FALSE, is_corrected |-> FALSE]

AOILocalTag(name, data_type, description, definition) ==
    [name |-> name, data_type |-> data_type, description |-> description,
     definition |-> definition]

L5KProject == [tags |-> EmptyDict, udts |-> EmptyDict, aois |-> EmptyDict,
               programs |-> EmptyDict]

\* set_desc: the description is replaced only when a Description is found
set_desc(obj, text) ==
    With(get_desc(text), LAMBDA desc :
        IF desc # <<>> THEN [obj EXCEPT !.description = desc] ELSE obj)

\* ------------------------------------------------------------------------
\* strings.strip_attrs and its three patterns.  In each pattern the value is
\*   (\([^\)]*\)|"[^"]*"|[^,)]*)
\* tried in that order; AltEnd gives the last atom each alternative would
\* take from position v (v - 1: the empty match, -1: the alternative fails).
\* ------------------------------------------------------------------------
DefaultDataWords == {"DefaultData", "defaultdata", "DEFAULTDATA"}

\* index of the first atom of `set` at or after i, Len(s) + 1 if none
FindFirst(s, i, set) ==
    LET js == {j \in i..Len(s) : s[j] \in set} IN
    IF js = {} THEN Len(s) + 1 ELSE MinOf(js)

AltEnd(s, v, alt) ==
    IF alt = 1 THEN
        (IF v <= Len(s) /\ s[v] = "(" /\ FindFirst(s, v + 1, {")"}) <= Len(s)
         THEN FindFirst(s, v + 1, {")"}) ELSE -1)
    ELSE IF alt = 2 THEN
        (IF v <= Len(s) /\ s[v] = "\"" /\ FindFirst(s, v + 1, {"\""}) <= Len(s)
         THEN FindFirst(s, v + 1, {"\""}) ELSE -1)
    ELSE FindFirst(s, v, {",", ")"}) - 1

\* what must follow the value, per pattern: the index of the last atom of the
\* whole match when the value ends at e, 0 when the tail does not match
\*   lead:  \s*(?=,|\))     trail:  \s*,\s*     end:  \s*(?=\))
TailEnd(kind, s, e) ==
    LET q == SkipWs(s, e + 1) IN
    IF kind = "lead" THEN (IF q <= Len(s) /\ s[q] \in {",", ")"} THEN q - 1 ELSE 0)
    ELSE IF kind = "trail" THEN (IF q <= Len(s) /\ s[q] = "," THEN SkipWs(s, q + 1) - 1 ELSE 0)
    ELSE (IF q <= Len(s) /\ s[q] = ")" THEN q - 1 ELSE 0)

\* DefaultData\s*:=\s*(value)tail with the name at position a: the index of the
\* last atom matched, 0 for no match
\* the end of the whole match when the value is taken by alternative alt, else 0
AttrEndBy(kind, s, v, alt) ==
    With(AltEnd(s, v, alt), LAMBDA e : IF e = -1 THEN 0 ELSE TailEnd(kind, s, e))

AttrEnd(kind, s, a) ==
    IF ~(a <= Len(s) /\ s[a] \in DefaultDataWords) THEN 0
    ELSE With(SkipWs(s, a + 1), LAMBDA b :
         IF ~(b <= Len(s) /\ s[b] = ":=") THEN 0
         ELSE With([alt \in 1..3 |-> AttrEndBy(kind, s, SkipWs(s, b + 1), alt)], LAMBDA end :
              IF end[1] # 0 THEN end[1] ELSE IF end[2] # 0 THEN end[2] ELSE end[3]))

\* a match of the pattern that starts at i: the index of its last atom, else 0
\*   lead:  ,\s*DefaultData...    trail:  DefaultData...    end:  (?:,\s*)?DefaultData...
\* (the optional comma of `end` is taken when it is there: the name cannot
\* begin at a comma)
MatchEnd(kind, s, i) ==
    IF kind = "lead" /\ s[i] # "," THEN 0
    ELSE AttrEnd(kind, s, IF kind # "trail" /\ s[i] = "," THEN SkipWs(s, i + 1) ELSE i)

\* pattern.sub('', s): every leftmost non-overlapping match removed
\* st.out is the text kept so far, st.next the first position after the last match
SubStep(st, s, i) ==
    IF i < st.next THEN st
    ELSE With(MatchEnd(st.kind, s, i), LAMBDA e :
         IF e # 0 THEN [st EXCEPT !.next = e + 1] ELSE [st EXCEPT !.out = Append(@, s[i])])

ReSub(kind, s) == Fold(SubStep, s, 1, Len(s), [kind |-> kind, out |-> <<>>, next |-> 1]).out

\* one turn of the loop body of strip_attrs
StripPass(s) == ReSub("end", ReSub("trail", ReSub("lead", s)))

strip_attrs(definition) ==
    IF definition = <<>> \/ ~Has(definition, "DefaultData") THEN definition
    ELSE With(StripPass(definition), LAMBDA s1 :
         IF s1 = definition THEN definition ELSE StripPass(s1))

\* ------------------------------------------------------------------------
\* textwrap.dedent(text).strip("\n"): the common leading white space of the
\* non-blank lines is removed, a blank line becomes empty.
\* ------------------------------------------------------------------------
LeadWs(line) == SkipWs(line, 1) - 1
IsBlank(line) == SkipWs(line, 1) > Len(line)

RECURSIVE StripNL(_)
StripNL(s) ==
    IF Len(s) > 0 /\ s[1] = NL THEN StripNL(Tail(s))
    ELSE IF Len(s) > 0 /\ s[Len(s)] = NL THEN StripNL(Slice(s, 1, Len(s) - 1))
    ELSE s

Dedent(text) ==
    LET ls == SplitLines(text)
        full == {i \in 1..Len(ls) : ~IsBlank(ls[i])}
        margin == IF full = {} THEN 0
                  ELSE CHOOSE m \in {LeadWs(ls[i]) : i \in full} :
                           \A i \in full : m <= LeadWs(ls[i])
    IN JoinWith([i \in 1..Len(ls) |-> IF i \in full THEN From(ls[i], margin + 1) ELSE <<>>], NL)

\* the text capture_block returns for the accumulated lines
CapText(acc) == StripNL(Dedent(JoinWith(acc, NL)))

\* ------------------------------------------------------------------------
\* patterns.py and utils.py: the line shapes
\* ------------------------------------------------------------------------
\* Words that begin with a block keyword without being it: <<keyword, rest>>
KwTail == ("PROGRAM_x" :> <<"PROGRAM", "_x">>) @@ ("CONTROLLER_x" :> <<"CONTROLLER", "_x">>)

\* stripped.startswith(kw)
StartsWithKw(stripped, kw) ==
    /\ Len(stripped) > 0
    /\ \/ stripped[1] = kw
       \/ stripped[1] \in DOMAIN KwTail /\ KwTail[stripped[1]][1] = kw

\* the longest run of atoms from i on that are neither white space nor in `stop`
TokenEnd(s, i, stop) ==
    LET bad == {j \in i..Len(s) : IsWs(s[j]) \/ s[j] \in stop} IN
    IF i > Len(s) THEN i - 1 ELSE IF bad = {} THEN Len(s) ELSE MinOf(bad) - 1

\* utils.extract_block_name: ^HEADER\s+([^\s(]+), None when it does not match
extract_block_name(header_line, header) ==
    IF Len(header_line) >= 2 /\ header_line[1] = header /\ IsWs(header_line[2])
    THEN LET a == SkipWs(header_line, 2) IN Slice(header_line, a, TokenEnd(header_line, a, {"("}))
    ELSE None

\* RE_CONTROLLER_HDR: ^CONTROLLER\s+([A-Za-z_]\w*)\s*(\(|$), group 1 or None
ControllerName(first) ==
    IF Len(first) >= 3 /\ first[1] = "CONTROLLER" /\ IsWs(first[2])
    THEN LET a == SkipWs(first, 2)
             b == SkipWs(first, a + 1)
         IN IF a <= Len(first) /\ IsIdent(first[a]) /\ (b > Len(first) \/ first[b] = "(")
            THEN <<first[a]>> ELSE None
    ELSE None

\* RE_FAMILYTYPE: \bFamilyType\s*:=\s*([A-Za-z_]\w*), group 1 of the first match or None
FamilyAt(s, i) ==
    LET a == SkipWs(s, i + 1)
        b == SkipWs(s, a + 1)
    IN IF s[i] \in {"FamilyType", "familytype"} /\ a <= Len(s) /\ s[a] = ":="
          /\ b <= Len(s) /\ IsIdent(s[b])
       THEN <<s[b]>> ELSE None

get_family_type(text) ==
    With({i \in 1..Len(text) : FamilyAt(text, i) # None}, LAMBDA hits :
        IF hits = {} THEN None ELSE FamilyAt(text, MinOf(hits)))

\* RE_UDT_TYPEFIRST: ^(?P<dtype>[A-Za-z_]\w*) (?P<name>[A-Za-z_]\w*)(?P<name_dims>\[\d+(?:,\d+)*\])?
\* the end of \d+(?:,\d+)*\] from i, 0 when it does not match
RECURSIVE DimsEnd(_, _)
DimsEnd(s, i) ==
    IF ~(i + 1 <= Len(s) /\ IsDigits(s[i])) THEN 0
    ELSE IF s[i + 1] = "]" THEN i + 1
    ELSE IF s[i + 1] = "," THEN DimsEnd(s, i + 2)
    ELSE 0

MatchTypeFirst(s) ==
    IF Len(s) >= 3 /\ IsIdent(s[1]) /\ s[2] = " " /\ IsIdent(s[3])
    THEN [ok |-> TRUE, dtype |-> <<s[1]>>, name |-> <<s[3]>>,
          name_dims |-> IF Len(s) >= 4 /\ s[4] = "[" /\ DimsEnd(s, 5) # 0
                        THEN Slice(s, 4, DimsEnd(s, 5)) ELSE <<>>]
    ELSE [ok |-> FALSE]

\* 'Z' * 10 as a name prefix
HiddenWords == {"ZZZZZZZZZZH", "ZZZZZZZZZZG"}

\* RE_UDT_BIT_ALIAS: ^BIT\s+(?P<alias>\w+)\s+(?P<word>\w+)\s*:\s*(?P<bit>\d+)\b
MatchBitAlias(s) ==
    LET a == SkipWs(s, 2)
        w == SkipWs(s, a + 1)
        c == SkipWs(s, w + 1)
        b == SkipWs(s, c + 1)
    IN IF /\ Len(s) >= 2 /\ s[1] = "BIT" /\ IsWs(s[2])
          /\ a <= Len(s) /\ IsWord(s[a])
          /\ a + 1 <= Len(s) /\ IsWs(s[a + 1])
          /\ w <= Len(s) /\ IsWord(s[w])
          /\ c <= Len(s) /\ s[c] = ":"
          /\ b <= Len(s) /\ IsDigits(s[b])
       THEN [ok |-> TRUE, alias |-> <<s[a]>>, word |-> <<s[w]>>, bit |-> s[b]]
       ELSE [ok |-> FALSE]

\* RE_AOI_PARAM: ^([\w]+)\s+(?:OF|:)\s+([\w\.]+)
MatchAoiParam(s) ==
    LET c == SkipWs(s, 2)
        r == SkipWs(s, c + 1)
    IN IF /\ Len(s) >= 2 /\ IsWord(s[1]) /\ IsWs(s[2])
          /\ c <= Len(s) /\ s[c] \in {"OF", ":"}
          /\ c + 1 <= Len(s) /\ IsWs(s[c + 1])
          /\ r <= Len(s) /\ (IsWord(s[r]) \/ s[r] = ".")
       THEN [ok |-> TRUE, name |-> <<s[1]>>, rhs |-> Slice(s, r, RunEnd(s, r, {"."}))]
       ELSE [ok |-> FALSE]

\* RE_AOI_LOCALTAG: ^([\w]+)\s*:\s*([\w]+)
MatchAoiLocal(s) ==
    LET c == SkipWs(s, 2)
        r == SkipWs(s, c + 1)
    IN IF /\ Len(s) >= 1 /\ IsWord(s[1])
          /\ c <= Len(s) /\ s[c] = ":"
          /\ r <= Len(s) /\ IsWord(s[r])
       THEN [ok |-> TRUE, name |-> <<s[1]>>, dtype |-> <<s[r]>>]
       ELSE [ok |-> FALSE]

\* the program name of a PROGRAM line: the token after the keyword, cut at '('
ProgramName(raw) ==
    LET st == LStrip(raw)
        after_kw == LStrip(IF st[1] \in DOMAIN KwTail
                           THEN <<KwTail[st[1]][2]>> \o Tail(st) ELSE Tail(st))
    IN IF after_kw = <<>> THEN <<>>
       ELSE Slice(after_kw, 1, TokenEnd(after_kw, 1, {"("}))

\* ------------------------------------------------------------------------
\* L5KParser: the parser object and the locals of _parse_structures.
\*
\* The parser record p holds
\*   i                        the number of source lines consumed so far
\*   state                    ParseState
\*   current_struct           the UDT or AOI being filled: its kind and name
\*   tag_buf, prog_tag_buf    the two TagBuffers
\*   project, corrected_tags_log, controller_header_lines, controller_name
\*   header_text              the header block (also project.header.content)
\*   pend                     the inner loop the scan is in, if any
\*
\* The input is consumed one line per step.  An inner loop of the code that
\* reads ahead (capture_block, the DATATYPE header, the ENCODED_DATA metadata,
\* the controller header) keeps in pend the parser as it was before the block
\* (base) and the lines gathered so far (acc); each further line re-applies
\* the block's effect to base with the longer acc.  After k lines p is
\* therefore what the code leaves when the input is exactly these k lines.
\* ------------------------------------------------------------------------
ParseState == [in_udt |-> FALSE, in_aoi |-> FALSE, in_aoi_params |-> FALSE,
               in_aoi_localtags |-> FALSE, in_controller |-> FALSE, in_tags |-> FALSE,
               in_program |-> FALSE, in_prog_tags |-> FALSE, cur_program |-> None]

NoPend == [kind |-> "none"]
NoStruct == [kind |-> "none", name |-> None]

NewParser == [i |-> 0, state |-> ParseState, current_struct |-> NoStruct,
              tag_buf |-> EmptyTagBuffer, prog_tag_buf |-> EmptyTagBuffer,
              project |-> L5KProject, corrected_tags_log |-> <<>>,
              controller_header_lines |-> <<>>, controller_name |-> None,
              header_text |-> <<>>, pend |-> NoPend]

\* _emit_tag_spec
emit_tag_spec(p, buf) ==
    With(parse_tag_fields(buf, FALSE), LAMBDA f :
        IF ~f.ok THEN p
        ELSE [p EXCEPT !.project.tags =
                  DictPut(@, f.name, Tag(f.name, f.data_type, f.description, f.definition))])

\* A variant of _emit_prog_tag_spec that stores the statement in the mapping
\* of the controller; C10 must tell it from the code's.
emit_prog_tag_spec_global(p, prog, buf) == emit_tag_spec(p, buf)

\* _emit_prog_tag_spec
emit_prog_tag_spec(p, prog, buf) ==
    IF prog = None \/ ~DictHas(p.project.programs, prog) THEN p
    ELSE With(parse_tag_fields(buf, TRUE), LAMBDA f :
         IF ~f.ok THEN p
         ELSE [p EXCEPT !.project.programs.val[prog].tags =
                   DictPut(@, f.name, Tag(f.name, f.data_type, f.description, f.definition))])

\* lines 261-277: CONTROLLER / END_CONTROLLER, with the first line of
\* _capture_controller_header
OnController(p, raw) ==
    With(paren_delta(raw), LAMBDA depth :
        IF p.controller_header_lines = <<>>
        THEN [p EXCEPT !.state.in_controller = TRUE,
                       !.controller_header_lines = <<raw>>,
                       !.controller_name = ControllerName(Strip(raw)),
                       !.pend = IF depth = 0 THEN [kind |-> "ctrl_peek", depth |-> 0]
                                ELSE IF depth > 0 THEN [kind |-> "ctrl_more", depth |-> depth]
                                ELSE NoPend]
        ELSE [p EXCEPT !.state.in_controller = TRUE])

\* lines 279-292: TAG / END_TAG of the controller
OnTag(p) == [p EXCEPT !.state.in_tags = TRUE, !.tag_buf = EmptyTagBuffer]

OnEndTag(p) ==
    LET p1 == IF p.tag_buf.parts # <<>> THEN emit_tag_spec(p, Flush(p.tag_buf)) ELSE p
    IN [p1 EXCEPT !.tag_buf = EmptyTagBuffer, !.state.in_tags = FALSE]

\* lines 294-306: TAG / END_TAG of a program
OnProgTag(p) == [p EXCEPT !.state.in_prog_tags = TRUE, !.prog_tag_buf = EmptyTagBuffer]

FlushProgTags(p) ==
    LET p1 == IF p.state.in_prog_tags /\ p.prog_tag_buf.parts # <<>>
                 /\ p.state.cur_program # None
              THEN emit_prog_tag_spec(p, p.state.cur_program, Flush(p.prog_tag_buf))
              ELSE p
    IN [p1 EXCEPT !.prog_tag_buf = EmptyTagBuffer]

OnProgEndTag(p) == [FlushProgTags(p) EXCEPT !.state.in_prog_tags = FALSE]

\* f"Unballanced parens in header starting at line {i+1}"
UnbalancedMsg(lineno) ==
    <<"Unballanced", " ", "parens", " ", "in", " ", "header", " ", "starting", " ", "at",
      " ", "line", " ", ToString(lineno)>>

\* lines 309-352: the DATATYPE header gathered in hdr_lines, applied to the
\* parser as it was before the header (at line number lineno)
NewDatatype(name, header_blob) ==
    With(get_family_type(header_blob), LAMBDA ft :
        [set_desc(UDT(name), header_blob) EXCEPT !.family_type = IF ft # None THEN ft ELSE @])

ApplyDatatype(base, hdr_lines, lineno) ==
    With(IF paren_delta(JoinWith(hdr_lines, " ")) # 0
         THEN [base EXCEPT !.corrected_tags_log = Append(@, UnbalancedMsg(lineno))]
         ELSE base, LAMBDA p1 :
    With(extract_block_name(Strip(hdr_lines[1]), "DATATYPE"), LAMBDA name :
        IF name = None THEN p1
        ELSE [p1 EXCEPT !.current_struct = [kind |-> "udt", name |-> name],
                        !.project.udts =
                            DictPut(@, name,
                                    NewDatatype(name, JoinWith([k \in 1..Len(hdr_lines) |->
                                                                   Strip(hdr_lines[k])], " "))),
                        !.state.in_udt = TRUE, !.state.in_aoi = FALSE,
                        !.state.in_aoi_params = FALSE, !.state.in_aoi_localtags = FALSE]))

\* the header loop of lines 316-322 after the line raw, acc being the lines
\* before it and depth their parenthesis depth
DatatypeHeader(base, acc, depth, raw) ==
    [ApplyDatatype(base, Append(acc, raw), base.i + 1)
        EXCEPT !.pend = IF depth + paren_delta(raw) <= 0 THEN NoPend
                        ELSE [kind |-> "dt_hdr", base |-> base, acc |-> Append(acc, raw),
                              depth |-> depth + paren_delta(raw)]]

OnEndDatatype(p) == [p EXCEPT !.state.in_udt = FALSE, !.current_struct = NoStruct]

\* lines 358-374
OnAoi(p, stripped) ==
    With(extract_block_name(stripped, "ADD_ON_INSTRUCTION_DEFINITION"), LAMBDA name :
        IF name = None THEN [p EXCEPT !.state.in_aoi = TRUE, !.state.in_udt = FALSE]
        ELSE [p EXCEPT !.state.in_aoi = TRUE, !.state.in_udt = FALSE,
                       !.current_struct = [kind |-> "aoi", name |-> name],
                       !.project.aois = DictPut(@, name, set_desc(AOI(name), stripped))])

OnEndAoi(p) == [p EXCEPT !.state.in_aoi = FALSE, !.current_struct = NoStruct]

\* lines 377-401: the ENCODED_DATA metadata gathered in meta_lines
\* 'EncodedType := ADD_ON_INSTRUCTION_DEFINITION' in meta_blob
HasEncodedAoi(blob) ==
    \E k \in 1..(Len(blob) - 4) :
        Slice(blob, k, k + 4) = <<"EncodedType", " ", ":=", " ", "ADD_ON_INSTRUCTION_DEFINITION">>

\* Name\s*:=\s*"([^"]+)": group 1 of a match at i, None when there is none
EncNameAt(s, i) ==
    LET a == SkipWs(s, i + 1)
        q == SkipWs(s, a + 1)
        c == FindFirst(s, q + 1, {"\""})
    IN IF s[i] = "Name" /\ a <= Len(s) /\ s[a] = ":=" /\ q <= Len(s) /\ s[q] = "\""
          /\ c <= Len(s) /\ c > q + 1
       THEN Slice(s, q + 1, c - 1) ELSE None

EncName(blob) ==
    With({k \in 1..Len(blob) : EncNameAt(blob, k) # None}, LAMBDA hits :
        IF hits = {} THEN None ELSE EncNameAt(blob, MinOf(hits)))

ApplyEncoded(base, meta_lines) ==
    With(JoinWith([k \in 1..Len(meta_lines) |-> Strip(meta_lines[k])], " "), LAMBDA meta_blob :
    With(EncName(meta_blob), LAMBDA aoi_name :
        IF HasEncodedAoi(meta_blob) /\ aoi_name # None
        THEN [base EXCEPT !.state.in_aoi = TRUE, !.state.in_udt = FALSE,
                          !.state.in_aoi_params = FALSE, !.state.in_aoi_localtags = FALSE,
                          !.current_struct = [kind |-> "aoi", name |-> aoi_name],
                          !.project.aois =
                              DictPut(@, aoi_name, set_desc(AOI(aoi_name), meta_blob))]
        ELSE base))

\* the metadata loop of lines 381-386 after the line raw, acc being the lines before it
EncodedMeta(base, acc, raw) ==
    [ApplyEncoded(base, Append(acc, raw))
        EXCEPT !.pend = IF acc # <<>> /\ Has(raw, ")") THEN NoPend
                        ELSE [kind |-> "enc", base |-> base, acc |-> Append(acc, raw)]]

OnEndEncoded(p) == [p EXCEPT !.state.in_aoi = FALSE, !.current_struct = NoStruct]

\* lines 410-440
\* lines 415-424: the program registered, or its description filled in
EnsureProgram(programs, prog_name, desc) ==
    IF ~DictHas(programs, prog_name) THEN DictPut(programs, prog_name, Program(prog_name, desc))
    ELSE IF programs.val[prog_name].description = <<>> /\ desc # <<>>
    THEN [programs EXCEPT !.val[prog_name].description = desc]
    ELSE programs

OnProgram(p, raw) ==
    With(ProgramName(raw), LAMBDA prog_name :
        [p EXCEPT !.project.programs = IF prog_name # <<>>
                                       THEN EnsureProgram(@, prog_name, get_desc(raw)) ELSE @,
                  !.state.in_program = (prog_name # <<>>),
                  !.state.cur_program = IF prog_name # <<>> THEN prog_name ELSE None,
                  !.state.in_prog_tags = FALSE])

OnEndProgram(p) ==
    [FlushProgTags(p) EXCEPT !.state.in_program = FALSE, !.state.cur_program = None,
                             !.state.in_prog_tags = FALSE]

\* lines 443-457: a line of a tag section goes to the section's TagBuffer
OnProgTagLine(p, raw) ==
    With(Feed(p.prog_tag_buf, Strip(raw)), LAMBDA r :
        IF r.complete
        THEN [emit_prog_tag_spec(p, p.state.cur_program, Flush(r.buf))
                 EXCEPT !.prog_tag_buf = EmptyTagBuffer]
        ELSE [p EXCEPT !.prog_tag_buf = r.buf])

OnTagLine(p, raw) ==
    With(Feed(p.tag_buf, Strip(raw)), LAMBDA r :
        IF r.complete
        THEN [emit_tag_spec(p, Flush(r.buf)) EXCEPT !.tag_buf = EmptyTagBuffer]
        ELSE [p EXCEPT !.tag_buf = r.buf])

\* lines 460-476: the section keywords of an AOI
AoiSectionWords == {"PARAMETERS", "END_PARAMETERS", "LOCAL_TAGS", "END_LOCAL_TAGS"}

OnAoiSection(p, word) ==
    IF word = "PARAMETERS" THEN [p EXCEPT !.state.in_aoi_params = TRUE]
    ELSE IF word = "END_PARAMETERS" THEN [p EXCEPT !.state.in_aoi_params = FALSE]
    ELSE IF word = "LOCAL_TAGS" THEN [p EXCEPT !.state.in_aoi_localtags = TRUE]
    ELSE [p EXCEPT !.state.in_aoi_localtags = FALSE]

\* int() of the digits of a bit index
int(w) == CHOOSE n \in 0..9 : ToString(n) = w

\* A variant of the hidden-word branch that always adds a new member, also
\* when a placeholder of that name exists; C7 must tell it from the code's.
ApplyHiddenAnew(base, m, definition) ==
    LET un == base.current_struct.name IN
    [base EXCEPT !.project.udts.val[un] =
        add_member(@, [UDTMember(m.name, <<"SINT">>, get_desc(definition), Strip(definition))
                          EXCEPT !.is_hidden_parent = TRUE])]

\* lines 482-499: a hidden SINT word whose captured text is definition
ApplyHidden(base, m, definition) ==
    LET un == base.current_struct.name
        udt == base.project.udts.val[un]
        name == m.name
    IN IF ~DictHas(udt.members, name)
       THEN [base EXCEPT !.project.udts.val[un] =
                add_member(udt, [UDTMember(name, <<"SINT">>, get_desc(definition),
                                           Strip(definition))
                                    EXCEPT !.is_hidden_parent = TRUE])]
       ELSE [base EXCEPT !.project.udts.val[un].objs[udt.members.val[name]] =
                [@ EXCEPT !.data_type = <<"SINT">>, !.definition = Strip(definition),
                          !.is_hidden_parent = TRUE]]

\* lines 502-528: a BIT alias
\* lines 517-527: the parent word of a BIT alias, a placeholder when it is not yet a member
EnsureWord(udt, word, desc) ==
    IF ~DictHas(udt.members, word)
    THEN add_member(udt, [UDTMember(word, <<"SINT">>, desc, None)
                             EXCEPT !.is_hidden_parent = TRUE])
    ELSE udt

\* the alias, the last member of udt, made a child of its word
AdoptAlias(udt, word, alias, desc) ==
    With(EnsureWord(udt, word, desc), LAMBDA u2 :
        add_child(u2, u2.members.val[word], alias, Len(udt.objs)))

ApplyBit(base, m, definition) ==
    With(get_desc(definition), LAMBDA desc :
        [base EXCEPT !.project.udts.val[base.current_struct.name] =
            AdoptAlias(add_member(@, [UDTMember(m.alias, <<"BOOL">>, desc, Strip(definition))
                                         EXCEPT !.is_bit = TRUE, !.parent_word = m.word,
                                                !.bit_index = int(m.bit)]),
                       m.word, m.alias, desc)])

\* lines 531-543: a type-first member
ApplyMember(base, m, definition) ==
    LET un == base.current_struct.name IN
    [base EXCEPT !.project.udts.val[un] =
        add_member(@, [UDTMember(m.name, m.dtype, get_desc(definition), Strip(definition))
                          EXCEPT !.name_dims = m.name_dims])]

\* lines 546-560: an AOI parameter
ApplyParam(base, m, definition) ==
    With(strip_attrs(definition), LAMBDA d :
        [base EXCEPT !.project.aois.val[base.current_struct.name].parameters =
            DictPut(@, m.name, AOIParameter(m.name, m.rhs, get_desc(d), d))])

\* lines 565-579: an AOI local tag
ApplyLocal(base, m, definition) ==
    With(strip_attrs(definition), LAMBDA d :
        [base EXCEPT !.project.aois.val[base.current_struct.name].localtags =
            DictPut(@, m.name, AOILocalTag(m.name, m.dtype, get_desc(d), d))])

\* the effect of a member line of kind what whose capture_block gathered acc
ApplyBlock(what, base, m, acc) ==
    With(CapText(acc), LAMBDA definition :
        IF what = "hidden" THEN ApplyHidden(base, m, definition)
        ELSE IF what = "bit" THEN ApplyBit(base, m, definition)
        ELSE IF what = "member" THEN ApplyMember(base, m, definition)
        ELSE IF what = "param" THEN ApplyParam(base, m, definition)
        ELSE ApplyLocal(base, m, definition))

\* capture_block (lines 224-251) begun at line raw: a one-line statement is
\* complete at once, otherwise the loop of lines 241-248 is entered
SingleLine(first) ==
    EndsWith2(first, ")", ";") \/ (~Has(first, "(") /\ EndsWith(first, ";"))

\* capture_block after the line raw, acc being the lines before it and depth
\* their parenthesis depth; the block's effect is applied to base
CaptureBlock(what, base, m, acc, depth, raw) ==
    [ApplyBlock(what, base, m, Append(acc, raw))
        EXCEPT !.pend = IF (IF acc = <<>> THEN SingleLine(Strip(raw))
                            ELSE depth + paren_delta(raw) = 0 /\ EndsWith(Strip(raw), ";"))
                        THEN NoPend
                        ELSE [kind |-> "block", what |-> what, m |-> m, base |-> base,
                              acc |-> Append(acc, raw), depth |-> depth + paren_delta(raw)]]

\* lines 479-581: the pattern a line inside a DATATYPE or inside a section of
\* an AOI matches, with the branch `what` that takes it
OnUdtLine(stripped) ==
    With(MatchTypeFirst(stripped), LAMBDA tf :
    With(MatchBitAlias(stripped), LAMBDA ba :
        IF tf.ok /\ tf.dtype = <<"SINT">> /\ tf.name[1] \in HiddenWords
        THEN [what |-> "hidden", m |-> tf]
        ELSE IF ba.ok THEN [what |-> "bit", m |-> ba]
        ELSE [what |-> "member", m |-> tf]))

OnParamLine(stripped) == [what |-> "param", m |-> MatchAoiParam(stripped)]

OnLocalLine(stripped) == [what |-> "local", m |-> MatchAoiLocal(stripped)]

OnStructLine(p, stripped) ==
    IF p.state.in_udt /\ p.current_struct.kind = "udt" THEN OnUdtLine(stripped)
    ELSE IF p.state.in_aoi_params /\ p.current_struct.kind = "aoi" THEN OnParamLine(stripped)
    ELSE IF p.state.in_aoi_localtags /\ p.current_struct.kind = "aoi"
    THEN OnLocalLine(stripped)
    ELSE [what |-> "none", m |-> [ok |-> FALSE]]

\* ------------------------------------------------------------------------
\* One turn of the while loop of _parse_structures (lines 253-584) on line
\* raw, the tests taken in the order of the code.
\* ------------------------------------------------------------------------
MainLine(p, raw) ==
    LET stripped == Strip(raw)
        st == p.state
    IN IF stripped = <<>> THEN p
       ELSE IF StartsWithKw(stripped, "CONTROLLER") THEN OnController(p, raw)
       ELSE IF StartsWithKw(stripped, "END_CONTROLLER")
            THEN [p EXCEPT !.state.in_controller = FALSE]
       ELSE IF st.in_controller /\ ~st.in_program /\ stripped = <<"TAG">> THEN OnTag(p)
       ELSE IF st.in_controller /\ ~st.in_program /\ stripped = <<"END_TAG">> THEN OnEndTag(p)
       ELSE IF st.in_program /\ stripped = <<"TAG">> THEN OnProgTag(p)
       ELSE IF st.in_program /\ stripped = <<"END_TAG">> THEN OnProgEndTag(p)
       ELSE IF StartsWithKw(stripped, "DATATYPE") THEN DatatypeHeader(p, <<>>, 0, raw)
       ELSE IF StartsWithKw(stripped, "END_DATATYPE") THEN OnEndDatatype(p)
       ELSE IF StartsWithKw(stripped, "ADD_ON_INSTRUCTION_DEFINITION") THEN OnAoi(p, stripped)
       ELSE IF StartsWithKw(stripped, "END_ADD_ON_INSTRUCTION_DEFINITION") THEN OnEndAoi(p)
       ELSE IF StartsWithKw(stripped, "ENCODED_DATA") THEN EncodedMeta(p, <<>>, raw)
       ELSE IF StartsWithKw(stripped, "END_ENCODED_DATA") THEN OnEndEncoded(p)
       ELSE IF StartsWithKw(stripped, "PROGRAM") THEN OnProgram(p, raw)
       ELSE IF StartsWithKw(stripped, "END_PROGRAM") THEN OnEndProgram(p)
       ELSE IF st.in_program /\ st.in_prog_tags /\ st.cur_program # None
            THEN OnProgTagLine(p, raw)
       ELSE IF st.in_controller /\ st.in_tags THEN OnTagLine(p, raw)
       ELSE IF st.in_aoi /\ Len(stripped) = 1 /\ stripped[1] \in AoiSectionWords
            THEN OnAoiSection(p, stripped[1])
       ELSE With(OnStructLine(p, stripped), LAMBDA r :
                IF r.m.ok THEN CaptureBlock(r.what, p, r.m, <<>>, 0, raw) ELSE p)

\* One more line read by the inner loop the scan is in
Continue(p, raw) ==
    LET q == p.pend
        k == q.kind
    IN IF k = "ctrl_peek" THEN
            \* _capture_controller_header, line 1105
            IF StartsWith(LStrip(raw), "(")
            THEN [p EXCEPT !.controller_header_lines = Append(@, raw),
                           !.pend = IF paren_delta(raw) > 0
                                    THEN [kind |-> "ctrl_more", depth |-> paren_delta(raw)]
                                    ELSE NoPend]
            ELSE p
       ELSE IF k = "ctrl_more" THEN
            \* _capture_controller_header, lines 1111-1114
            [p EXCEPT !.controller_header_lines = Append(@, raw),
                      !.pend = IF q.depth + paren_delta(raw) > 0
                               THEN [q EXCEPT !.depth = @ + paren_delta(raw)]
                               ELSE NoPend]
       ELSE IF k = "dt_hdr" THEN
            \* lines 316-322
            DatatypeHeader(q.base, q.acc, q.depth, raw)
       ELSE IF k = "enc" THEN
            \* lines 381-386
            EncodedMeta(q.base, q.acc, raw)
       ELSE \* capture_block, lines 241-248
            CaptureBlock(q.what, q.base, q.m, q.acc, q.depth, raw)

\* The parser after one more line of input
StepLine(p, raw) ==
    With(IF p.pend.kind = "ctrl_peek" /\ ~StartsWith(LStrip(raw), "(")
         THEN [p EXCEPT !.pend = NoPend] ELSE p, LAMBDA q :
        [(IF q.pend.kind = "none" THEN MainLine(q, raw) ELSE Continue(q, raw))
            EXCEPT !.i = p.i + 1])

\* ------------------------------------------------------------------------
\* L5KParser._parse_header: the block from the first line (******...  through
\* the first line ...******) at or after it, and the two lines that follow,
\* joined by line breaks; "" when no line opens a header.
\* ------------------------------------------------------------------------
\* HEADER_OPEN_RE and HEADER_CLOSE_RE on the stripped line
IsHeaderOpen(ln) == Strip(ln) = <<"(", "*****">>
IsHeaderClose(ln) == Strip(ln) = <<"*****", ")">>

parse_header(ls) ==
    With({i \in 1..Len(ls) : IsHeaderOpen(ls[i])}, LAMBDA opens :
    IF opens = {} THEN <<>>
    ELSE With(MinOf(opens), LAMBDA start :
         With({j \in start..Len(ls) : IsHeaderClose(ls[j])}, LAMBDA closes :
         With(IF closes = {} THEN start ELSE MinOf(closes), LAMBDA end :
             JoinWith(SubSeq(ls, start, Min(end + 2, Len(ls))), NL)))))

\* _parse_structures on the lines ls, begun in p
ScanStep(p, ls, i) == StepLine(p, ls[i])
Scan(p, ls) == Fold(ScanStep, ls, 1, Len(ls), p)

\* ------------------------------------------------------------------------
\* The second pass: _find_base_type and _resolve_nested_types
\* ------------------------------------------------------------------------
base_data_types == {"BOOL", "SINT", "INT", "DINT", "LINT", "REAL"}
IntegerWords == {"SINT", "INT", "DINT", "LINT"}

\* str.upper() on a type name: the lower-case spellings used in the inputs
LowerCase == ("dint" :> "DINT") @@ ("sint" :> "SINT")
upper(w) == [k \in 1..Len(w) |-> IF w[k] \in DOMAIN LowerCase THEN LowerCase[w[k]] ELSE w[k]]

\* path.split('.', 1)
SplitDot(path) ==
    LET d == FindFirst(path, 1, {"."}) IN
    [root_name |-> Slice(path, 1, d - 1), member_name |-> From(path, d + 1)]

\* the (instruction, parameter) pairs of the project, in iteration order
RECURSIVE PairsFrom(_, _)
PairsFrom(aois, k) ==
    IF k > Len(aois.keys) THEN <<>>
    ELSE LET a == aois.val[aois.keys[k]] IN
         [j \in 1..Len(a.parameters.keys) |-> <<aois.keys[k], a.parameters.keys[j]>>]
             \o PairsFrom(aois, k + 1)

Pairs(project) == PairsFrom(project.aois, 1)

\* The interpreter's recursion limit.  A call of _find_base_type is fixed by
\* the parameter it looks at, so a chain of more calls than there are
\* parameters repeats one and never ends: Python raises RecursionError.
RecursionLimit(project) == Len(Pairs(project)) + 1

\* _find_base_type with `fuel` frames left: [raised, type]
RECURSIVE find_base_type(_, _, _, _)
find_base_type(project, path, context_aoi, fuel) ==
    IF fuel = 0 THEN [raised |-> TRUE, type |-> <<>>]
    ELSE IF Len(path) = 1 /\ path[1] \in base_data_types THEN [raised |-> FALSE, type |-> path]
    ELSE IF ~Has(path, ".") THEN [raised |-> FALSE, type |-> path]
    ELSE With(SplitDot(path), LAMBDA sp :
         With(project.aois.val[context_aoi].localtags, LAMBDA localtags :
         IF ~DictHas(localtags, sp.root_name) THEN [raised |-> FALSE, type |-> path]
         ELSE With(localtags.val[sp.root_name].data_type, LAMBDA local_dt :
              IF /\ Len(sp.member_name) = 1 /\ IsDigits(sp.member_name[1])
                 /\ Len(local_dt) = 1 /\ upper(local_dt)[1] \in IntegerWords
              THEN [raised |-> FALSE, type |-> <<"BOOL">>]
              ELSE IF /\ DictHas(project.aois, local_dt)
                      /\ DictHas(project.aois.val[local_dt].parameters, sp.member_name)
              THEN find_base_type(project,
                                  project.aois.val[local_dt].parameters.val[sp.member_name].data_type,
                                  local_dt, fuel - 1)
              ELSE [raised |-> FALSE, type |-> path])))

\* lines 601-610: the first line of the definition rewritten to 'name : base'
\*   ^(\s*name)\s+(?:OF\s+[\w\.]+|:\s*[\w\.]+)
RewriteFirst(first, name, base_type) ==
    With(SkipWs(first, 1), LAMBDA n :
    With(SkipWs(first, n + 1), LAMBDA c :
    With(SkipWs(first, c + 1), LAMBDA r :
        IF /\ n <= Len(first) /\ <<first[n]>> = name
           /\ n + 1 <= Len(first) /\ IsWs(first[n + 1])
           /\ c <= Len(first)
           /\ \/ first[c] = "OF" /\ c + 1 <= Len(first) /\ IsWs(first[c + 1])
              \/ first[c] = ":"
           /\ r <= Len(first) /\ (IsWord(first[r]) \/ first[r] = ".")
        THEN Slice(first, 1, n) \o <<" ", ":", " ">> \o base_type
                 \o From(first, RunEnd(first, r, {"."}) + 1)
        ELSE first)))

\* the rewriting that would keep the first line alone
RewriteDefinitionFirstOnly(definition, name, base_type) ==
    RewriteFirst(SplitLines(definition)[1], name, base_type)

RewriteDefinition(definition, name, base_type) ==
    LET ls == SplitLines(definition) IN
    JoinWith([k \in 1..Len(ls) |-> IF k = 1 THEN RewriteFirst(ls[1], name, base_type)
                                   ELSE ls[k]], NL)

\* f'Corrected {aoi.name}.{param.name}: from "{original_type}" to "{base_type}"'
CorrectedMsg(aoi_name, param_name, original_type, base_type) ==
    <<"Corrected", " ">> \o aoi_name \o <<".">> \o param_name
        \o <<":", " ", "from", " ", "\"">> \o original_type
        \o <<"\"", " ", "to", " ", "\"">> \o base_type \o <<"\"">>

\* the body of the inner for loop (lines 593-613) for one parameter:
\* [p, raised]
ResolveParam(p, aoi_name, param_name) ==
    With(p.project.aois.val[aoi_name], LAMBDA aoi :
    With(aoi.parameters.val[param_name], LAMBDA param :
    With(param.data_type, LAMBDA original_type :
    IF ~Has(original_type, ".") THEN [p |-> p, raised |-> FALSE]
    ELSE With(find_base_type(p.project, original_type, aoi_name, RecursionLimit(p.project)),
              LAMBDA b :
         IF b.raised THEN [p |-> p, raised |-> TRUE]
         ELSE IF b.type # <<>> /\ b.type # original_type
         THEN [p |-> [p EXCEPT
                        !.project.aois.val[aoi_name].parameters.val[param_name] =
                            [@ EXCEPT !.data_type = b.type, !.is_corrected = TRUE,
                                      !.definition = IF @ # <<>>
                                                     THEN RewriteDefinition(@, param.name, b.type)
                                                     ELSE @],
                        !.corrected_tags_log =
                            Append(@, CorrectedMsg(aoi.name, param.name, original_type, b.type))],
               raised |-> FALSE]
         ELSE [p |-> p, raised |-> FALSE]))))

\* the two for loops, left at the first parameter that raises
RECURSIVE ResolveFrom(_, _, _)
ResolveFrom(p, pairs, k) ==
    IF k > Len(pairs) THEN [p |-> p, raised |-> FALSE]
    ELSE With(ResolveParam(p, pairs[k][1], pairs[k][2]), LAMBDA r :
         IF r.raised THEN r ELSE ResolveFrom(r.p, pairs, k + 1))

\* _resolve_nested_types
resolve_nested_types(p) == ResolveFrom(p, Pairs(p.project), 1)

\* ------------------------------------------------------------------------
\* Rendering (models.py): every to_l5k returns a list of lines
\* ------------------------------------------------------------------------
RECURSIVE Concat(_)
Concat(lists) == IF lists = <<>> THEN <<>> ELSE Head(lists) \o Concat(Tail(lists))

\* indent * level
Tabs(level) == [k \in 1..level |-> TAB]

\* models._dedent_lines: the lines of the text that are not blank
dedent_lines(def_text) == SelectSeq(SplitLines(def_text), LAMBDA ln : Strip(ln) # <<>>)

\* models._indent_lines
indent_lines(ls, level) == [k \in 1..Len(ls) |-> Tabs(level) \o RStrip(ls[k])]

\* Description := "desc"
DescAttr(desc) == <<"Description", " ", ":=", " ", "\"">> \o desc \o <<"\"">>

\* UDTMember.to_l5k
member_to_l5k(m, level) ==
    IF m.definition # <<>> THEN indent_lines(dedent_lines(m.definition), level)
    ELSE indent_lines(<<m.data_type \o <<" ">> \o m.name \o <<";">>>>, level)

\* UDT.to_l5k and _render_udt_header_line: the header line
udt_header_line(udt) ==
    <<TAB, "DATATYPE", " ">> \o udt.name \o <<" ", "(">>
        \o (IF udt.description # <<>> THEN DescAttr(udt.description) \o <<",", " ">> ELSE <<>>)
        \o <<"FamilyType", " ", ":=", " ">>
        \o (IF udt.family_type # <<>> THEN udt.family_type ELSE <<"NoFamily">>) \o <<")">>

\* UDT.to_l5k: every member of the type, in the order of the mapping
udt_to_l5k(udt) ==
    <<udt_header_line(udt)>>
        \o Concat([k \in 1..Len(udt.members.keys) |->
                      member_to_l5k(udt.objs[udt.members.val[udt.members.keys[k]]], 2)])
        \o <<<<TAB, "END_DATATYPE">>>>

\* AOIParameter.to_l5k and AOILocalTag.to_l5k (the parser never sets
\* is_bit_alias, so _emit_plain_bool is not entered)
decl_to_l5k(t, level) ==
    IF t.definition # <<>> THEN indent_lines(dedent_lines(t.definition), level)
    ELSE indent_lines(<<t.name \o <<" ", ":", " ">> \o t.data_type \o <<" ", "(", ")", ";">>>>,
                      level)

\* Tag.to_l5k
tag_to_l5k(tag, level) ==
    indent_lines(<<tag.name \o <<" ", ":", " ">> \o tag.data_type
                      \o (IF tag.description # <<>>
                          THEN <<" ", "(">> \o DescAttr(tag.description) \o <<")">> ELSE <<>>)
                      \o <<";">>>>, level)

\* str.replace of a character by a string
ReplaceAll(str, ch, by) ==
    Concat([k \in 1..Len(str) |-> IF str[k] = ch THEN by ELSE <<str[k]>>])

CR == "\r"

\* A variant of encode_l5k_string that escapes `$` last, after the other
\* replacements have written their `$`; C23 must tell it from the code's.
encode_l5k_string_late(str) ==
    ReplaceAll(ReplaceAll(ReplaceAll(ReplaceAll(ReplaceAll(str,
        "\"", <<"$", "\"">>), "'", <<"$", "'">>), CR, <<"$", "R">>), NL, <<"$", "N">>),
        "$", <<"$", "$">>)

\* strings.encode_l5k_string: the replacements in the order of lines 113-115
encode_l5k_string(str) ==
    ReplaceAll(ReplaceAll(ReplaceAll(ReplaceAll(ReplaceAll(str,
        "$", <<"$", "$">>), "\"", <<"$", "\"">>), "'", <<"$", "'">>),
        CR, <<"$", "R">>), NL, <<"$", "N">>)

\* _render_program_header_line
render_program_header_line(program) ==
    <<TAB, "PROGRAM", " ">> \o program.name
        \o (IF Strip(program.description) # <<>>
            THEN <<" ", "(">> \o DescAttr(encode_l5k_string(program.description)) \o <<")">>
            ELSE <<>>)

\* ------------------------------------------------------------------------
\* A selection (l5k_types.SelectionDict): the sets udts, aois and tags of
\* names, and the mappings udt_members, aoi_parameters, aoi_localtags and
\* program_tags from a container's name to a set of names.  A key that is
\* missing reads as the empty set.
\* ------------------------------------------------------------------------
SelGet(map, name) == IF name \in DOMAIN map THEN map[name] ELSE {}

\* ------------------------------------------------------------------------
\* _capture_controller_header on the whole file, and the two _ensure_
\* helpers the exporter calls first
\* ------------------------------------------------------------------------
\* lines 1105-1114 at line j; st.first is the index after the CONTROLLER line
CaptureStep(st, ls, j) ==
    IF st.done THEN st
    ELSE IF \/ st.depth > 0
            \/ st.depth = 0 /\ j = st.first /\ StartsWith(LStrip(ls[j]), "(")
    THEN [st EXCEPT !.header = Append(@, ls[j]), !.depth = @ + paren_delta(ls[j])]
    ELSE [st EXCEPT !.done = TRUE]

capture_controller_header(ls, i) ==
    Fold(CaptureStep, ls, i + 1, Len(ls),
         [header |-> <<ls[i]>>, depth |-> paren_delta(ls[i]), first |-> i + 1,
          done |-> FALSE]).header

\* _ensure_controller_header
ensure_controller_header(p, ls) ==
    With({i \in 1..Len(ls) : StartsWithKw(Strip(ls[i]), "CONTROLLER")}, LAMBDA found :
        IF p.controller_header_lines # <<>> \/ found = {} THEN p
        ELSE [p EXCEPT !.controller_header_lines = capture_controller_header(ls, MinOf(found)),
                       !.controller_name = ControllerName(Strip(ls[MinOf(found)]))])

\* _ensure_header_for_export
ensure_header_for_export(p, ls) ==
    IF p.header_text # <<>> THEN p ELSE [p EXCEPT !.header_text = parse_header(ls)]

\* str.rstrip("\n")
RECURSIVE RStripNL(_)
RStripNL(str) == IF EndsWith(str, NL) THEN RStripNL(Slice(str, 1, Len(str) - 1)) ELSE str

\* ------------------------------------------------------------------------
\* exporter.export_whitelist: the list `out`, section by section
\* ------------------------------------------------------------------------
\* lines 33-47
WhitelistHead(p) ==
    (IF p.header_text # <<>> THEN <<RStripNL(p.header_text), <<>>>> ELSE <<>>)
        \o (IF p.controller_header_lines # <<>> THEN p.controller_header_lines
            ELSE <<<<"CONTROLLER", " ">>
                      \o (IF p.controller_name # None THEN p.controller_name
                          ELSE <<"Controller">>)>>)

\* lines 51-57
WhitelistUdts(udts, selection) ==
    Concat([k \in 1..Len(udts.keys) |->
               IF udts.keys[k] \notin selection.udts THEN <<>>
               ELSE udt_to_l5k(udts.val[udts.keys[k]]) \o <<<<>>>>])

\* the lines of the declarations of the mapping d whose names are in sel
SelectedDecls(d, sel, level) ==
    Concat([k \in 1..Len(d.keys) |->
               IF d.keys[k] \in sel THEN decl_to_l5k(d.val[d.keys[k]], level) ELSE <<>>])

PlaceHolder ==
    Tabs(3) \o <<"__PlaceHolder", " ", ":", " ", "BOOL", " ", "(">>
        \o DescAttr(<<"Required", " ", "for", " ", "AVEVA", " ", "Edge">>) \o <<")", ";">>

\* lines 64-102 for one instruction
WhitelistAoi(name, aoi, in_aoi_sel, sel_params, sel_locals) ==
    IF ~in_aoi_sel /\ sel_params = {} /\ sel_locals = {} THEN <<>>
    ELSE <<<<TAB, "ADD_ON_INSTRUCTION_DEFINITION", " ">> \o name \o <<" ", "(">>
              \o (IF Strip(aoi.description) # <<>>
                  THEN DescAttr(encode_l5k_string(aoi.description)) ELSE <<>>)
              \o <<")">>>>
         \o (IF sel_params # {}
             THEN <<Tabs(2) \o <<"PARAMETERS">>>> \o SelectedDecls(aoi.parameters, sel_params, 3)
                      \o <<Tabs(2) \o <<"END_PARAMETERS">>, <<>>>>
             ELSE <<>>)
         \o <<Tabs(2) \o <<"LOCAL_TAGS">>>>
         \o SelectedDecls(aoi.localtags, sel_locals, 3)
         \o (IF DictKeys(aoi.localtags) \cap sel_locals = {} /\ in_aoi_sel
             THEN <<PlaceHolder>> ELSE <<>>)
         \o <<Tabs(2) \o <<"END_LOCAL_TAGS">>, <<>>,
              <<TAB, "END_ADD_ON_INSTRUCTION_DEFINITION">>, <<>>>>

WhitelistAois(aois, selection) ==
    Concat([k \in 1..Len(aois.keys) |->
               WhitelistAoi(aois.keys[k], aois.val[aois.keys[k]],
                            aois.keys[k] \in selection.aois,
                            SelGet(selection.aoi_parameters, aois.keys[k]),
                            SelGet(selection.aoi_localtags, aois.keys[k]))])

\* the tag lines of the mapping d whose names are in sel
SelectedTags(d, sel, level) ==
    Concat([k \in 1..Len(d.keys) |->
               IF d.keys[k] \in sel THEN tag_to_l5k(d.val[d.keys[k]], level) ELSE <<>>])

\* lines 105-115
WhitelistTags(tags, tag_sel) ==
    IF tag_sel = {} THEN <<>>
    ELSE <<<<TAB, "TAG">>>> \o SelectedTags(tags, tag_sel, 2) \o <<<<TAB, "END_TAG">>, <<>>>>

\* lines 119-131 without the test of line 121: a block for every program
WhitelistProgramsAll(programs, program_tag_sel) ==
    Concat([k \in 1..Len(programs.keys) |->
               <<render_program_header_line(programs.val[programs.keys[k]]),
                 Tabs(2) \o <<"TAG">>>>
                    \o SelectedTags(programs.val[programs.keys[k]].tags,
                                    SelGet(program_tag_sel, programs.keys[k]), 3)
                    \o <<Tabs(2) \o <<"END_TAG">>, <<TAB, "END_PROGRAM">>, <<>>>>])

\* lines 119-131
WhitelistPrograms(programs, program_tag_sel) ==
    Concat([k \in 1..Len(programs.keys) |->
               IF SelGet(program_tag_sel, programs.keys[k]) = {} THEN <<>>
               ELSE <<render_program_header_line(programs.val[programs.keys[k]]),
                      Tabs(2) \o <<"TAG">>>>
                    \o SelectedTags(programs.val[programs.keys[k]].tags,
                                    SelGet(program_tag_sel, programs.keys[k]), 3)
                    \o <<Tabs(2) \o <<"END_TAG">>, <<TAB, "END_PROGRAM">>, <<>>>>])

\* export_whitelist on a parser whose header and controller header are ensured
export_whitelist(p, selection) ==
    JoinWith(WhitelistHead(p)
                 \o WhitelistUdts(p.project.udts, selection)
                 \o WhitelistAois(p.project.aois, selection)
                 \o WhitelistTags(p.project.tags, selection.tags)
                 \o WhitelistPrograms(p.project.programs, selection.program_tags)
                 \o <<<<"END_CONTROLLER">>, <<>>>>, NL)

\* ------------------------------------------------------------------------
\* L5KParser.get_selected_content: the loop over the body lines.  The record
\* x holds the locals of the function: the ExportState, block_lines,
\* kept_lines, skip_until_block_end, out and the index i of the line the
\* loop is at (from 1), with the parser p and the selection it was given.
\* ------------------------------------------------------------------------
ExportState ==
    [in_udt |-> FALSE, in_aoi |-> FALSE, in_params |-> FALSE, in_locals |-> FALSE,
     in_controller |-> FALSE, in_routine |-> FALSE, in_tags |-> FALSE,
     current_udt |-> None, current_aoi |-> None]

\* _get_header_and_body: the body lines of the file ls
BodyLines(p, ls) ==
    IF p.header_text = <<>> THEN ls
    ELSE With(Len(SplitLines(p.header_text)), LAMBDA header_len :
         With({k \in (header_len + 1)..Len(ls) : StartsWithKw(Strip(ls[k]), "CONTROLLER")},
              LAMBDA found :
                  From(ls, IF found = {} THEN header_len + 1 ELSE MinOf(found))))

\* flush_block
flush_block(x, end_line) ==
    [x EXCEPT !.out = IF x.kept_lines # <<>> THEN @ \o Append(x.block_lines, end_line) ELSE @,
              !.block_lines = <<>>, !.kept_lines = <<>>]

\* "DefaultData :=" in s
HasDefaultDataKey(s) ==
    \E k \in 1..(Len(s) - 2) : s[k] = "DefaultData" /\ s[k + 1] = " " /\ s[k + 2] = ":="

\* lines 930-934: a line outside any block
Outside(x, line, s) ==
    IF ~x.state.in_routine /\ ~HasDefaultDataKey(s) THEN [x EXCEPT !.out = Append(@, line)]
    ELSE x

\* ^([\w\.]+)\s*:\s*  on s: the index of the last atom of group 1, 0 when
\* the pattern does not match (the colon may be that of := )
TagNameEnd(s) ==
    With({j \in 1..Len(s) : ~(IsWord(s[j]) \/ s[j] = ".")}, LAMBDA bad :
    With(IF bad = {} THEN Len(s) ELSE MinOf(bad) - 1, LAMBDA e :
        IF e >= 1 /\ SkipWs(s, e + 1) <= Len(s) /\ s[SkipWs(s, e + 1)] \in {":", ":="}
        THEN e ELSE 0))

\* lines 753-764: the lines that stand for the selected tag tag_name
RebuiltTag(p, line, s, tag_name) ==
    With(Slice(line, 1, LeadWs(line)), LAMBDA indent :
        IF DictHas(p.project.tags, tag_name) /\ p.project.tags.val[tag_name].definition # <<>>
        THEN With(SplitLines(p.project.tags.val[tag_name].definition), LAMBDA def_lines :
                 [k \in 1..Len(def_lines) |-> indent \o def_lines[k]])
        ELSE With(first_outside_parens(s, ":="), LAMBDA idx_assign :
                 <<indent \o (IF idx_assign = 0 THEN s ELSE RStrip(Slice(s, 1, idx_assign - 1)))
                      \o <<";">>>>))

\* lines 742-767: a line of a TAG section that names a tag
InTags(x, line, s) ==
    With(Slice(s, 1, TagNameEnd(s)), LAMBDA tag_name :
        IF tag_name \in x.selection.tags
        THEN [x EXCEPT !.kept_lines = Append(@, <<>>),
                       !.block_lines = @ \o RebuiltTag(x.p, line, s, tag_name)]
        ELSE x)

\* the index after  \[\d+(?:,\d+)*\]  at s[2], 2 when there is no such group
DimsAfter(s) ==
    IF Len(s) >= 2 /\ s[2] = "[" /\ DimsEnd(s, 3) # 0 THEN DimsEnd(s, 3) + 1 ELSE 2

\* lines 847-861: the member a line of a type definition names, None when
\* it names none (a BIT alias line matches the type-first pattern)
member_name(s) ==
    IF Len(s) >= 1 /\ IsWord(s[1])
    THEN With(DimsAfter(s), LAMBDA j :
         With(SkipWs(s, j), LAMBDA a :
         With(SkipWs(s, 2), LAMBDA c :
             IF j <= Len(s) /\ IsWs(s[j]) /\ a <= Len(s) /\ IsWord(s[a]) THEN <<s[a]>>
             ELSE IF /\ c <= Len(s) /\ s[c] = ":" /\ SkipWs(s, c + 1) <= Len(s)
                     /\ \/ IsWord(s[SkipWs(s, c + 1)])
                        \/ s[SkipWs(s, c + 1)] \in {"[", "]", "."}
             THEN <<s[1]>>
             ELSE None)))
    ELSE None

\* _udt_member_should_keep
udt_member_should_keep(p, udt_name, name, members_sel) ==
    \/ name \in members_sel
    \/ /\ DictHas(p.project.udts, udt_name)
       /\ DictHas(p.project.udts.val[udt_name].members, name)
       /\ With(p.project.udts.val[udt_name], LAMBDA udt :
              DictKeys(udt.objs[udt.members.val[name]].children) \cap members_sel # {})

\* lines 845-876: a line of a type definition
InUdt(x, line, s) ==
    With(member_name(s), LAMBDA name :
        [x EXCEPT !.kept_lines =
                      IF /\ name # None
                         /\ \/ x.state.current_udt \in x.selection.udts
                            \/ udt_member_should_keep(x.p, x.state.current_udt, name,
                                                      SelGet(x.selection.udt_members,
                                                             x.state.current_udt))
                      THEN Append(@, line) ELSE @,
                  !.block_lines = Append(@, line)])

\* utils.match_aoi_param_name: ^([\w]+)\s+(?:OF|:)\s+([\w\.]+)
match_aoi_param_name(s) ==
    IF Len(s) >= 2 /\ IsWord(s[1]) /\ IsWs(s[2])
    THEN With(SkipWs(s, 2), LAMBDA a :
         With(SkipWs(s, a + 1), LAMBDA b :
             IF /\ a < Len(s) /\ s[a] \in {"OF", ":"} /\ IsWs(s[a + 1])
                /\ b <= Len(s) /\ (IsWord(s[b]) \/ s[b] = ".")
             THEN <<s[1]>> ELSE None))
    ELSE None

\* utils.match_aoi_local_name: ^([\w]+)\s*:\s*([\w]+)
match_aoi_local_name(s) ==
    IF Len(s) >= 1 /\ IsWord(s[1])
    THEN With(SkipWs(s, 2), LAMBDA a :
         With(SkipWs(s, a + 1), LAMBDA b :
             IF a <= Len(s) /\ s[a] = ":" /\ b <= Len(s) /\ IsWord(s[b])
             THEN <<s[1]>> ELSE None))
    ELSE None

\* _process_aoi_param_line and _process_aoi_local_line after the name is
\* matched: (handled, keep_this_line, skip_until_block_end) and the lines
\* added to kept_lines and block_lines; decls is the mapping of the
\* instruction the name is looked up in
ProcessDecl(name, decls, sel) ==
    IF name = None
    THEN [handled |-> FALSE, keep |-> FALSE, skip |-> FALSE, def_lines |-> <<>>]
    ELSE IF DictHas(decls, name) /\ decls.val[name].definition # <<>>
    THEN [handled |-> TRUE, keep |-> name \in sel, skip |-> TRUE,
          def_lines |-> SplitLines(decls.val[name].definition)]
    ELSE [handled |-> TRUE, keep |-> name \in sel, skip |-> FALSE, def_lines |-> <<>>]

process_aoi_param_line(p, aoi_name, s, params_sel_map) ==
    ProcessDecl(match_aoi_param_name(s),
                IF DictHas(p.project.aois, aoi_name)
                THEN p.project.aois.val[aoi_name].parameters ELSE EmptyDict,
                SelGet(params_sel_map, aoi_name))

process_aoi_local_line(p, aoi_name, s, locals_sel_map) ==
    ProcessDecl(match_aoi_local_name(s),
                IF DictHas(p.project.aois, aoi_name)
                THEN p.project.aois.val[aoi_name].localtags ELSE EmptyDict,
                SelGet(locals_sel_map, aoi_name))

\* lines 878-928: a line of an instruction definition
InAoi(x, line, s) ==
    IF s = <<"PARAMETERS">>
    THEN [x EXCEPT !.state.in_params = TRUE, !.state.in_locals = FALSE,
                   !.block_lines = Append(@, line)]
    ELSE IF s = <<"END_PARAMETERS">>
    THEN [x EXCEPT !.state.in_params = FALSE, !.block_lines = Append(@, line)]
    ELSE IF s = <<"LOCAL_TAGS">>
    THEN [x EXCEPT !.state.in_locals = TRUE, !.state.in_params = FALSE,
                   !.block_lines = Append(@, line)]
    ELSE IF s = <<"END_LOCAL_TAGS">>
    THEN [x EXCEPT !.state.in_locals = FALSE, !.block_lines = Append(@, line)]
    ELSE IF x.state.in_params \/ x.state.in_locals
    THEN With(IF x.state.in_params
              THEN process_aoi_param_line(x.p, x.state.current_aoi, s,
                                          x.selection.aoi_parameters)
              ELSE process_aoi_local_line(x.p, x.state.current_aoi, s,
                                          x.selection.aoi_localtags),
              LAMBDA r :
                  IF r.handled /\ r.skip
                  THEN [x EXCEPT !.kept_lines = @ \o r.def_lines,
                                 !.block_lines = @ \o r.def_lines,
                                 !.skip_until_block_end = TRUE]
                  ELSE [x EXCEPT !.skip_until_block_end = r.skip,
                                 !.kept_lines = IF r.keep THEN Append(@, line) ELSE @,
                                 !.block_lines = Append(@, line)])
    ELSE [x EXCEPT !.block_lines = Append(@, line)]

\* lines 807-832: the opening of an encoded instruction at body[k]
EncodedStart(x, body, k) ==
    With({j \in (k + 1)..Len(body) : Has(body[j], ")")}, LAMBDA closes :
    With(IF closes = {} THEN Len(body) ELSE MinOf(closes), LAMBDA last :
    With(JoinWith([j \in 1..(last - k + 1) |-> Strip(body[k + j - 1])], " "), LAMBDA meta_blob :
        [x EXCEPT !.state.in_aoi = TRUE,
                  !.state.current_aoi = IF HasEncodedAoi(meta_blob) THEN EncName(meta_blob)
                                        ELSE None,
                  !.state.in_params = FALSE, !.state.in_locals = FALSE,
                  !.block_lines = SubSeq(body, k, last), !.kept_lines = <<>>,
                  !.i = last + 1])))

\* lines 680-934: one turn of the while loop at body[k], up to the change of i
Turn(x, body, k, line, s) ==
    IF x.skip_until_block_end
    THEN [x EXCEPT !.skip_until_block_end = ~EndsWith2(s, ")", ";")]
    ELSE IF x.state.in_routine
    THEN [x EXCEPT !.state.in_routine = ~StartsWithKw(s, "END_ROUTINE")]
    ELSE IF StartsWithKw(s, "ROUTINE") THEN [x EXCEPT !.state.in_routine = TRUE]
    ELSE IF StartsWithKw(s, "CONTROLLER")
    THEN (IF x.p.controller_header_lines # <<>>
          THEN [x EXCEPT !.state.in_controller = TRUE,
                         !.out = @ \o x.p.controller_header_lines,
                         !.i = k + Len(x.p.controller_header_lines)]
          ELSE [x EXCEPT !.state.in_controller = TRUE, !.out = Append(@, line)])
    ELSE IF StartsWithKw(s, "END_CONTROLLER")
    THEN [x EXCEPT !.state.in_controller = FALSE,
                   !.out = IF ~HasDefaultDataKey(s) THEN Append(@, line) ELSE @]
    ELSE IF x.state.in_controller /\ s = <<"TAG">>
    THEN [x EXCEPT !.state.in_tags = TRUE, !.block_lines = <<line>>, !.kept_lines = <<>>]
    ELSE IF x.state.in_controller /\ s = <<"END_TAG">>
    THEN [flush_block(x, line) EXCEPT !.state.in_tags = FALSE]
    ELSE IF x.state.in_controller /\ x.state.in_tags /\ TagNameEnd(s) > 0
    THEN InTags(x, line, s)
    ELSE IF StartsWithKw(s, "DATATYPE")
    THEN With(extract_block_name(s, "DATATYPE"), LAMBDA name :
             [x EXCEPT !.state.in_udt = TRUE, !.state.current_udt = name,
                       !.block_lines = <<IF name # None /\ DictHas(x.p.project.udts, name)
                                         THEN udt_header_line(x.p.project.udts.val[name])
                                         ELSE line>>,
                       !.kept_lines = <<>>])
    ELSE IF StartsWithKw(s, "END_DATATYPE")
    THEN [flush_block(x, line) EXCEPT !.state.in_udt = FALSE, !.state.current_udt = None]
    ELSE IF StartsWithKw(s, "ADD_ON_INSTRUCTION_DEFINITION")
    THEN [x EXCEPT !.state.in_aoi = TRUE,
                   !.state.current_aoi =
                       extract_block_name(s, "ADD_ON_INSTRUCTION_DEFINITION"),
                   !.state.in_params = FALSE, !.state.in_locals = FALSE,
                   !.block_lines = <<line>>, !.kept_lines = <<>>]
    ELSE IF StartsWithKw(s, "END_ADD_ON_INSTRUCTION_DEFINITION")
            \/ StartsWithKw(s, "END_ENCODED_DATA")
    THEN [flush_block(x, line) EXCEPT !.state.in_aoi = FALSE, !.state.current_aoi = None,
                                      !.state.in_params = FALSE, !.state.in_locals = FALSE]
    ELSE IF StartsWithKw(s, "ENCODED_DATA") THEN EncodedStart(x, body, k)
    ELSE IF x.state.in_udt /\ x.state.current_udt # None THEN InUdt(x, line, s)
    ELSE IF x.state.in_aoi /\ x.state.current_aoi # None THEN InAoi(x, line, s)
    ELSE Outside(x, line, s)

\* the loop body at index k: nothing when the loop is not at k
SelectedStep(x, body, k) ==
    IF x.i # k THEN x
    ELSE With(Turn(x, body, k, body[k], Strip(body[k])), LAMBDA y :
             IF y.i = k THEN [y EXCEPT !.i = k + 1] ELSE y)

SelectedBody(p, body, selection) ==
    Fold(SelectedStep, body, 1, Len(body),
         [state |-> ExportState, block_lines |-> <<>>, kept_lines |-> <<>>,
          skip_until_block_end |-> FALSE, out |-> <<>>, i |-> 1, p |-> p,
          selection |-> selection]).out

\* get_selected_content on the parser p of the file ls
get_selected_content(p, ls, selection) ==
    JoinWith((IF p.header_text # <<>> THEN <<p.header_text>> ELSE <<>>)
                 \o SelectedBody(p, BodyLines(p, ls), selection), NL)

\* ------------------------------------------------------------------------
\* The state machine of L5KParser.parse
\*   lines    the lines of the file read so far
\*   parser   the parser object and the locals of _parse_structures
\*   passes   how many times _resolve_nested_types has run
\*   raised   whether an exception has left parse
\*   output   the export of the parser as it stands: the exporter, the
\*            selection it was given and the text it returned; none once the
\*            parser has changed
\* The file may end after any line, so the second pass may begin after any
\* line; once it has run no further line is read.
\* The objects that live beside the parser are absent (None) while a parser
\* is run:
\*   call     a call of a function of strings.py: its argument and result
\*   buffer   a TagBuffer with the chunks it was fed
\*   tree     a TreeState and the widget it mirrors
\*   app      the L5KTunerApp: its executor, its futures and its projects
\* ------------------------------------------------------------------------
VARIABLES lines, parser, passes, raised, output, call, buffer, tree, app

vars == <<lines, parser, passes, raised, output, call, buffer, tree, app>>

\* the variables of the parser and the variables of the other objects
parse_vars == <<lines, parser, passes, raised, output>>
beside == <<call, buffer, tree, app>>

NoOutput == [by |-> "none"]

\* how often the second pass is run on one model
MaxPasses == 2

\* L5KParser.__init__ followed by the lines `prefix` of the file
InitWith(prefix) ==
    /\ lines = prefix
    /\ parser = [Scan(NewParser, prefix) EXCEPT !.header_text = parse_header(prefix)]
    /\ passes = 0
    /\ raised = FALSE
    /\ output = NoOutput
    /\ call = None /\ buffer = None /\ tree = None /\ app = None

\* one turn of the while loop of _parse_structures on a line of `alphabet`,
\* for files of at most n lines; header_text is what _parse_header finds in
\* the lines read so far
ReadLine(alphabet, n) ==
    /\ passes = 0
    /\ Len(lines) < n
    /\ \E raw \in alphabet :
          /\ lines' = Append(lines, raw)
          /\ parser' = [StepLine(parser, raw)
                           EXCEPT !.header_text = parse_header(Append(lines, raw))]
    /\ output' = NoOutput
    /\ UNCHANGED <<passes, raised>>
    /\ UNCHANGED beside

\* _resolve_nested_types, at the end of parse and once more on its result
ResolveNestedTypes ==
    /\ ~raised
    /\ passes < MaxPasses
    /\ \E r \in {resolve_nested_types(parser)} :
          /\ parser' = r.p
          /\ raised' = r.raised
    /\ passes' = passes + 1
    /\ output' = NoOutput
    /\ UNCHANGED lines
    /\ UNCHANGED beside

\* exporter.export_whitelist with a selection of `selections`, on the parser
\* that parse has left
ExportWhitelist(selections) ==
    /\ passes >= 1
    /\ ~raised
    /\ \E selection \in selections :
       \E p \in {ensure_controller_header(ensure_header_for_export(parser, lines), lines)} :
          /\ parser' = p
          /\ output' = [by |-> "export_whitelist", selection |-> selection,
                        text |-> export_whitelist(p, selection)]
    /\ UNCHANGED <<lines, passes, raised>>
    /\ UNCHANGED beside

\* L5KParser.get_selected_content with a selection of `selections`, on the
\* parser that parse has left
GetSelectedContent(selections) ==
    /\ passes >= 1
    /\ ~raised
    /\ \E selection \in selections :
          output' = [by |-> "get_selected_content", selection |-> selection,
                     text |-> get_selected_content(parser, lines, selection)]
    /\ UNCHANGED <<lines, parser, passes, raised>>
    /\ UNCHANGED beside

\* ------------------------------------------------------------------------
\* Tag sections of the controller and of programs
\* ------------------------------------------------------------------------
\* the statements  name : type (Description := "desc") := value;
TagStatements ==
    {[name |-> <<"a">>, type |-> <<"DINT">>, desc |-> <<"d">>, value |-> <<"5">>],
     [name |-> <<"c">>, type |-> <<"INT">>, desc |-> <<"x", ")", "y">>, value |-> <<"3">>]}

AttrGroup(st) == <<"(", "Description", " ", ":=", " ", "\"">> \o st.desc \o <<"\"", ")">>

StatementText(st) ==
    <<" ">> \o st.name \o <<" ", ":", " ">> \o st.type \o <<" ">> \o AttrGroup(st)
        \o <<" ", ":=", " ">> \o st.value \o <<";">>

\* a line that is no tag statement and has no terminator
BadLine == <<" ", "Bad", " ", "line", " ", "here">>

ProgramNames == {<<"P">>, <<"Q">>}
ProgramLine(n) == <<"PROGRAM", " ">> \o n

\* the lines of a file with TAG sections of the controller only
TagLines ==
    {<<"TAG">>, <<"END_TAG">>, BadLine} \cup {StatementText(st) : st \in TagStatements}

\* the lines of a file with programs
ProgramTagLines ==
    {<<"TAG">>, <<"END_TAG">>, <<"END_PROGRAM">>}
        \cup {ProgramLine(n) : n \in ProgramNames}
        \cup {StatementText(st) : st \in TagStatements}

\* the longest files read
MaxTagLines == 6
MaxProgramLines == 7

ControllerLine == <<"CONTROLLER", " ", "C">>

InitTags == InitWith(<<ControllerLine>>)
ReadTagLine == ReadLine(TagLines, MaxTagLines)
NextTags == ReadTagLine \/ ResolveNestedTypes
SpecTags == InitTags /\ [][NextTags]_vars

ReadProgramLine == ReadLine(ProgramTagLines, MaxProgramLines)
NextPrograms == ReadProgramLine \/ ResolveNestedTypes
SpecPrograms == InitTags /\ [][NextPrograms]_vars

\* Where each line of the file stands, read off the text alone: inside the
\* TAG section of a program (its name), inside a TAG section of the
\* controller ("global"), or in neither ("none").  ok tells that every TAG,
\* END_TAG, PROGRAM and END_PROGRAM line so far is properly nested.
WhereStep(st, ls, i) ==
    LET l == Strip(ls[i]) IN
    IF l = <<"TAG">>
    THEN [st EXCEPT !.ok = @ /\ ~st.sect, !.sect = TRUE, !.at = Append(@, <<"none">>)]
    ELSE IF l = <<"END_TAG">>
    THEN [st EXCEPT !.ok = @ /\ st.sect, !.sect = FALSE, !.at = Append(@, <<"none">>)]
    ELSE IF l = <<"END_PROGRAM">>
    THEN [st EXCEPT !.ok = @ /\ ~st.sect /\ st.prog # None, !.prog = None,
                    !.at = Append(@, <<"none">>)]
    ELSE IF \E n \in ProgramNames : l = ProgramLine(n)
    THEN [st EXCEPT !.ok = @ /\ ~st.sect /\ st.prog = None, !.prog = From(l, 3),
                    !.at = Append(@, <<"none">>)]
    ELSE [st EXCEPT !.at = Append(@, IF ~st.sect THEN <<"none">>
                                     ELSE IF st.prog = None THEN <<"global">>
                                     ELSE st.prog)]

Where(ls) == Fold(WhereStep, ls, 1, Len(ls), [ok |-> TRUE, sect |-> FALSE, prog |-> None, at |-> <<>>])

\* line k begins a statement: the line before it opened the section or ended a statement
Fresh(ls, k) ==
    k > 1 /\ (Strip(ls[k - 1]) = <<"TAG">> \/ \E st \in TagStatements : ls[k - 1] = StatementText(st))

\* the tag mapping of program n, empty when there is no such program
ProgramTags(n) ==
    IF DictHas(parser.project.programs, n) THEN parser.project.programs.val[n].tags
    ELSE EmptyDict

\* C2: every complete statement  name : type (attrs) := value;  of a TAG
\* section of the controller is stored as a global Tag whose data_type is
\* type, whose description is the Description of attrs and whose definition
\* is  name : type (attrs);
C2_ControllerTagFields ==
    LET w == Where(lines) IN
    w.ok =>
        \A k \in 1..Len(lines) : \A st \in TagStatements :
            (lines[k] = StatementText(st) /\ w.at[k] = <<"global">> /\ Fresh(lines, k)) =>
                /\ DictHas(parser.project.tags, st.name)
                /\ parser.project.tags.val[st.name] =
                       Tag(st.name, st.type, st.desc,
                           st.name \o <<" ", ":", " ">> \o st.type \o <<" ">> \o AttrGroup(st)
                               \o <<";">>)

\* C3: a malformed line of a tag section yields no tag, no exception and no
\* log entry, and every well-formed statement of the section is stored,
\* before or after the malformed line
C3_MalformedLineDropped ==
    LET w == Where(lines) IN
    w.ok =>
        /\ ~raised
        /\ parser.corrected_tags_log = <<>>
        /\ DictKeys(parser.project.tags) \subseteq {st.name : st \in TagStatements}
        /\ \A k \in 1..Len(lines) : \A st \in TagStatements :
              (lines[k] = StatementText(st) /\ w.at[k] = <<"global">>) =>
                  DictHas(parser.project.tags, st.name)

HiddenWord == <<"ZZZZZZZZZZH">>
TypeName == <<"U">>

DatatypeLine ==
    <<"DATATYPE", " ", "U", " ", "(", "FamilyType", " ", ":=", " ", "NoFamily", ")">>

\* SINT ZZZZZZZZZZH (Radix := Decimal);  on one line and on two
HiddenDecl ==
    <<" ", "SINT", " ", "ZZZZZZZZZZH", " ", "(", "Radix", " ", ":=", " ", "Decimal", ")", ";">>
HiddenOpen == <<" ", "SINT", " ", "ZZZZZZZZZZH", " ", "(">>
HiddenClose == <<" ", " ", "Radix", " ", ":=", " ", "Decimal", ")", ";">>

\* BIT <alias> <word> : <bit> ...;
AliasLine(alias, word, bit) == <<" ", "BIT", " ", alias, " ", word, " ", ":", " ", bit, ";">>
AliasA ==
    <<" ", "BIT", " ", "A", " ", "ZZZZZZZZZZH", " ", ":", " ", "0", " ", "(", "Description",
      " ", ":=", " ", "\"", "a", "\"", ")", ";">>
AliasB == AliasLine("B", "ZZZZZZZZZZH", "1")

\* a plain member, an alias that names it, and a plain member named like the hidden word
PlainW == <<" ", "DINT", " ", "W", ";">>
AliasC == AliasLine("C", "W", "2")
PlainH == <<" ", "INT", " ", "ZZZZZZZZZZH", ";">>

MemberLines == {HiddenDecl, HiddenOpen, HiddenClose, AliasA, AliasB, PlainW, AliasC, PlainH}

\* the longest file read
MaxMemberLines == 6

InitMembers == InitWith(<<DatatypeLine>>)
ReadMemberLine == ReadLine(MemberLines, MaxMemberLines)
NextMembers == ReadMemberLine \/ ResolveNestedTypes
SpecMembers == InitMembers /\ [][NextMembers]_vars

\* The statements of the file, read off the text alone: for every line what
\* it is ("decl": a declaration of the hidden word begins, "A"/"B": an alias
\* of the hidden word, "plainH": a plain member named like the hidden word,
\* "inside": a line within the parentheses of a statement begun earlier,
\* "other").
StatementStep(st, ls, i) ==
    LET l == ls[i]
        kind == IF st.depth > 0 THEN "inside"
                ELSE IF l \in {HiddenDecl, HiddenOpen} THEN "decl"
                ELSE IF l = AliasA THEN "A"
                ELSE IF l = AliasB THEN "B"
                ELSE IF l = PlainH THEN "plainH"
                ELSE "other"
    IN [depth |-> IF l = HiddenOpen THEN st.depth + 1
                  ELSE IF l = HiddenClose /\ st.depth > 0 THEN st.depth - 1
                  ELSE st.depth,
        kinds |-> Append(st.kinds, kind)]

Statements(ls) == Fold(StatementStep, ls, 1, Len(ls), [depth |-> 0, kinds |-> <<>>]).kinds

TheType == parser.project.udts.val[TypeName]

\* the member object a name of the type is bound to
Member(n) == TheType.objs[TheType.members.val[n]]

\* C7: when a type definition holds declarations of the hidden word and BIT
\* aliases naming it, in any order, and no other member of that name, there
\* is exactly one member object named after the word; it is the one the name
\* is bound to, it is flagged is_hidden_parent, its children are exactly the
\* aliases that named it, each bound to the alias member, and once the word
\* is declared it carries the declaration
C7_HiddenWordAndAliases ==
    LET k == Statements(lines)
        has(x) == \E i \in 1..Len(k) : k[i] = x
        aliases == {<<a>> : a \in {x \in {"A", "B"} : has(x)}}
    IN (~has("plainH") /\ (has("decl") \/ aliases # {})) =>
          /\ DictHas(TheType.members, HiddenWord)
          /\ Cardinality({i \in 1..Len(TheType.objs) : TheType.objs[i].name = HiddenWord}) = 1
          /\ Member(HiddenWord).is_hidden_parent
          /\ Member(HiddenWord).data_type = <<"SINT">>
          /\ DictKeys(Member(HiddenWord).children) = aliases
          /\ \A a \in aliases :
                /\ DictHas(TheType.members, a)
                /\ Member(HiddenWord).children.val[a] = TheType.members.val[a]
          /\ has("decl") => Member(HiddenWord).definition # None

\* both aliases were read before the declaration of the word
C7_Witness ==
    /\ Len(lines) = 4
    /\ lines[2] = AliasA /\ lines[3] = AliasB /\ lines[4] = HiddenDecl
    /\ DictKeys(Member(HiddenWord).children) = {<<"A">>, <<"B">>}
    /\ Member(HiddenWord).definition = Strip(HiddenDecl)

\* C8: every member with is_bit set names with parent_word a member of the
\* same type that is flagged is_hidden_parent and holds the bit member in
\* its children under the bit member's name
C8_BitMemberHasHiddenParent ==
    \A n \in DictKeys(TheType.members) :
        Member(n).is_bit =>
            /\ DictHas(TheType.members, Member(n).parent_word)
            /\ Member(Member(n).parent_word).is_hidden_parent
            /\ DictHas(Member(Member(n).parent_word).children, n)
            /\ Member(Member(n).parent_word).children.val[n] = TheType.members.val[n]

\* ------------------------------------------------------------------------
\* Parameters and local tags of an instruction: the DefaultData attribute
\* ------------------------------------------------------------------------
InstructionName == <<"A">>
InstructionLine == <<"ADD_ON_INSTRUCTION_DEFINITION", " ", "A">>

\* the values a DefaultData attribute is given
DefaultValues ==
    {<<"5">>,
     <<"\"", "a", ",", "b", "\"">>,
     <<"(", "1", ",", "2", ")">>,
     <<"[", "1", ",", "2", ",", "3", "]">>}

\* the words and brackets that occur in those values and nowhere else
ValueAtoms == {"5", "a", "b", "1", "2", "3", "[", "]"}

DefaultDataAttr(v) == <<"DefaultData", " ", ":=", " ">> \o v
KeptAttr == <<"Description", " ", ":=", " ", "\"", "k", "\"">>
Positions == {"leading", "trailing", "sole"}

\* the attribute group with DefaultData in the given position
AttrsWith(pos, v) ==
    IF pos = "leading" THEN DefaultDataAttr(v) \o <<",", " ">> \o KeptAttr
    ELSE IF pos = "trailing" THEN KeptAttr \o <<",", " ">> \o DefaultDataAttr(v)
    ELSE DefaultDataAttr(v)

\* parameters and local tags are named after the position of DefaultData
ParamName(pos) == IF pos = "leading" THEN <<"PL">> ELSE IF pos = "trailing" THEN <<"PT">> ELSE <<"PS">>
LocalName(pos) == IF pos = "leading" THEN <<"LL">> ELSE IF pos = "trailing" THEN <<"LT">> ELSE <<"LS">>

DeclLine(name, pos, v) ==
    <<" ">> \o name \o <<" ", ":", " ", "DINT", " ", "(">> \o AttrsWith(pos, v) \o <<")", ";">>

InstructionLines ==
    {<<"PARAMETERS">>, <<"END_PARAMETERS">>, <<"LOCAL_TAGS">>, <<"END_LOCAL_TAGS">>}
        \cup {DeclLine(ParamName(pos), pos, v) : pos \in Positions, v \in DefaultValues}
        \cup {DeclLine(LocalName(pos), pos, v) : pos \in Positions, v \in DefaultValues}

\* the longest file read
MaxInstructionLines == 4

InitInstruction == InitWith(<<InstructionLine>>)
ReadInstructionLine == ReadLine(InstructionLines, MaxInstructionLines)
NextInstruction == ReadInstructionLine \/ ResolveNestedTypes
SpecInstruction == InitInstruction /\ [][NextInstruction]_vars

TheInstruction == parser.project.aois.val[InstructionName]

\* s holds t as a run of consecutive atoms
HasRun(s, t) == \E k \in 0..(Len(s) - Len(t)) : Slice(s, k + 1, k + Len(t)) = t

\* what C9 asks of one captured definition
DefaultDataAbsent(name, definition, description) ==
    /\ ~Has(definition, "DefaultData")
    /\ \A a \in ValueAtoms : ~Has(definition, a)
    /\ name \in {ParamName("leading"), ParamName("trailing"),
                 LocalName("leading"), LocalName("trailing")}
          => (HasRun(definition, KeptAttr) /\ description = <<"k">>)

\* C9: the definition captured for a parameter or a local tag declared with
\* a DefaultData attribute in leading, trailing or sole position holds
\* neither the name DefaultData nor any part of its value, and keeps the
\* Description attribute of the group
C9_DefaultDataAbsent ==
    /\ \A n \in DictKeys(TheInstruction.parameters) :
          DefaultDataAbsent(n, TheInstruction.parameters.val[n].definition,
                            TheInstruction.parameters.val[n].description)
    /\ \A n \in DictKeys(TheInstruction.localtags) :
          DefaultDataAbsent(n, TheInstruction.localtags.val[n].definition,
                            TheInstruction.localtags.val[n].description)

\* ------------------------------------------------------------------------
\* Two instruction definitions whose parameters refer to local tags
\* ------------------------------------------------------------------------
InstructionNames == {<<"A">>, <<"B">>}
HeaderOf(n) == <<"ADD_ON_INSTRUCTION_DEFINITION", " ">> \o n
EndInstruction == <<"END_ADD_ON_INSTRUCTION_DEFINITION">>

OfLine(name, root, member) == <<" ", name, " ", "OF", " ", root, ".", member, ";">>
LocalLine(name, type) == <<" ", name, " ", ":", " ", type, ";">>

\* the parameter and local-tag statements a definition draws from, in the
\* order it may hold them
ParamPool == <<OfLine("X", "L", "P"), OfLine("P", "K", "3"),
               OfLine("Z", "L", "X"), OfLine("X", "L", "X")>>
LocalPool == <<LocalLine("L", "A"), LocalLine("L", "B"), LocalLine("K", "DINT")>>

\* the most statements of one section, and the longest file read
MaxParams == 2
MaxLocals == 2
MaxFileLines == 20

InPool(pool, l) == \E k \in 1..Len(pool) : pool[k] = l
PoolIndex(pool, l) == CHOOSE k \in 1..Len(pool) : pool[k] = l
LastIndex(ls, l) == MaxOf({k \in 1..Len(ls) : ls[k] = l})
Headers(ls) == {k \in 1..Len(ls) : \E n \in InstructionNames : ls[k] = HeaderOf(n)}

\* the statements of pool that may follow the c-th statement of a section,
\* which was the j-th of the pool
Later(pool, j, c, max) == IF c < max THEN {pool[k] : k \in (j + 1)..Len(pool)} ELSE {}

\* The lines that may follow ls in a file of two instruction definitions,
\* each a PARAMETERS section and a LOCAL_TAGS section.
NextLines(ls) ==
    LET n == Len(ls)
        l == ls[n]
    IN IF n = 0 THEN {HeaderOf(a) : a \in InstructionNames}
       ELSE IF n \in Headers(ls) THEN {<<"PARAMETERS">>}
       ELSE IF l = <<"PARAMETERS">> THEN Later(ParamPool, 0, 0, MaxParams) \cup {<<"END_PARAMETERS">>}
       ELSE IF InPool(ParamPool, l)
       THEN Later(ParamPool, PoolIndex(ParamPool, l), n - LastIndex(ls, <<"PARAMETERS">>), MaxParams)
                \cup {<<"END_PARAMETERS">>}
       ELSE IF l = <<"END_PARAMETERS">> THEN {<<"LOCAL_TAGS">>}
       ELSE IF l = <<"LOCAL_TAGS">> THEN Later(LocalPool, 0, 0, MaxLocals) \cup {<<"END_LOCAL_TAGS">>}
       ELSE IF InPool(LocalPool, l)
       THEN Later(LocalPool, PoolIndex(LocalPool, l), n - LastIndex(ls, <<"LOCAL_TAGS">>), MaxLocals)
                \cup {<<"END_LOCAL_TAGS">>}
       ELSE IF l = <<"END_LOCAL_TAGS">> THEN {EndInstruction}
       ELSE IF Cardinality(Headers(ls)) = 1
       THEN {HeaderOf(a) : a \in InstructionNames \ {From(ls[1], 3)}}
       ELSE {}

InitFile == InitWith(<<>>)
ReadFileLine == ReadLine(NextLines(lines), MaxFileLines)
NextFile == ReadFileLine \/ ResolveNestedTypes
SpecFile == InitFile /\ [][NextFile]_vars

\* C1: parse returns without raising, whatever the text
C1_ParseNeverRaises == ~raised

\* The type a dotted path stands for in the context of instruction ctx, as
\* the declarations of the file give it: BOOL for a bit of a local tag of
\* an integer word type, else the type of the parameter the path names in
\* the instruction its local tag is an instance of, in that instruction's
\* context; <<>> when the path leads nowhere (or round in a circle).
RECURSIVE DeclaredType(_, _, _, _)
DeclaredType(project, path, ctx, fuel) ==
    IF fuel = 0 THEN <<>>
    ELSE IF ~Has(path, ".") THEN path
    ELSE LET root == SplitDot(path).root_name
             member == SplitDot(path).member_name
             locals == project.aois.val[ctx].localtags
             type == locals.val[root].data_type
         IN IF ~DictHas(locals, root) THEN <<>>
            ELSE IF Len(member) = 1 /\ IsDigits(member[1])
                    /\ Len(type) = 1 /\ upper(type)[1] \in IntegerWords
            THEN <<"BOOL">>
            ELSE IF DictHas(project.aois, type)
                    /\ DictHas(project.aois.val[type].parameters, member)
            THEN DeclaredType(project, project.aois.val[type].parameters.val[member].data_type,
                              type, fuel - 1)
            ELSE <<>>

\* the (instruction, parameter) pairs of a project, and a parameter of it
PairSet(project) == {Pairs(project)[k] : k \in 1..Len(Pairs(project))}
Param(project, pair) == project.aois.val[pair[1]].parameters.val[pair[2]]

\* the parameters declared with a dotted path, and what the path stands for
Dotted(project) == {pair \in PairSet(project) : Has(Param(project, pair).data_type, ".")}
TypeOf(project, pair) ==
    DeclaredType(project, Param(project, pair).data_type, pair[1], RecursionLimit(project))

\* the correction log holds an entry naming <Instruction>.<Parameter>
Logged(log, pair) ==
    \E k \in 1..Len(log) :
        Slice(log[k], 1, 6) = <<"Corrected", " ">> \o pair[1] \o <<".">> \o pair[2] \o <<":">>

\* a step of parse's own call of _resolve_nested_types that returns
FirstPass == passes = 0 /\ passes' = 1 /\ ~raised'

\* a file of two complete instruction definitions, and the same file with
\* the two definitions in the other order
TwoDefinitions(ls) == Cardinality(Headers(ls)) = 2 /\ ls[Len(ls)] = EndInstruction
Swapped(ls) ==
    LET h == MaxOf(Headers(ls)) IN From(ls, h) \o Slice(ls, 1, h - 1)
ResolvedSwapped(ls) == resolve_nested_types(Scan(NewParser, Swapped(ls)))

\* C4: resolution gives every parameter declared with a path the type the
\* path stands for; the types are the same when the two definitions are
\* declared in the other order; every rewritten parameter is logged as
\* <Instruction>.<Parameter>
C4_ResolvedTypes ==
    [][FirstPass =>
         /\ \A pair \in Dotted(parser.project) :
               TypeOf(parser.project, pair) # <<>>
                  => Param(parser'.project, pair).data_type = TypeOf(parser.project, pair)
         /\ TwoDefinitions(lines) =>
               /\ ~ResolvedSwapped(lines).raised
               /\ \A pair \in PairSet(parser.project) :
                     Param(parser'.project, pair).data_type
                        = Param(ResolvedSwapped(lines).p.project, pair).data_type
         /\ \A pair \in PairSet(parser.project) :
               Param(parser'.project, pair).data_type # Param(parser.project, pair).data_type
                  => Logged(parser'.corrected_tags_log, pair)]_vars

\* C5: a second run of _resolve_nested_types changes no parameter's
\* data_type or definition and appends nothing to the correction log
C5_SecondPassChangesNothing ==
    [][(passes = 1 /\ passes' = 2) =>
         /\ parser'.corrected_tags_log = parser.corrected_tags_log
         /\ \A pair \in PairSet(parser.project) :
               /\ Param(parser'.project, pair).data_type = Param(parser.project, pair).data_type
               /\ Param(parser'.project, pair).definition = Param(parser.project, pair).definition]_vars

\* C6: a parameter whose path stands for no type keeps its data_type and
\* definition, is not flagged is_corrected and is not logged
C6_UnresolvableKept ==
    [][FirstPass =>
         \A pair \in Dotted(parser.project) :
            TypeOf(parser.project, pair) = <<>>
               => /\ Param(parser'.project, pair) = Param(parser.project, pair)
                  /\ ~Param(parser'.project, pair).is_corrected
                  /\ ~Logged(parser'.corrected_tags_log, pair)]_vars

\* ------------------------------------------------------------------------
\* Files given whole: the parser reads one of them line by line and may stop
\* after any line
\* ------------------------------------------------------------------------
\* the lines that follow ls in the files that begin with ls
NextOf(files, ls) ==
    {f[Len(ls) + 1] : f \in {g \in files : Len(g) > Len(ls) /\ SubSeq(g, 1, Len(ls)) = ls}}

ReadFile(files) == ReadLine(NextOf(files, lines), MaxOf({Len(f) : f \in files}))

\* a selection (l5k_types.SelectionDict)
Selection(udts, udt_members, aois, aoi_parameters, aoi_localtags, tags, program_tags) ==
    [udts |-> udts, udt_members |-> udt_members, aois |-> aois,
     aoi_parameters |-> aoi_parameters, aoi_localtags |-> aoi_localtags,
     tags |-> tags, program_tags |-> program_tags]

\* ------------------------------------------------------------------------
\* Reading an exported text: its blocks, their sections, and the lines that
\* stand in them.  A row is a non-blank line, stripped, with the block
\* (keyword and name) and the section it stands in.
\* ------------------------------------------------------------------------
OpenKw == {"DATATYPE", "ADD_ON_INSTRUCTION_DEFINITION", "PROGRAM"}
CloseKw == {"END_DATATYPE", "END_ADD_ON_INSTRUCTION_DEFINITION", "END_PROGRAM"}
SectKw == {"PARAMETERS", "LOCAL_TAGS", "TAG"}
EndSectKw == {"END_PARAMETERS", "END_LOCAL_TAGS", "END_TAG"}

Row(what, cont, sect, l) == [what |-> what, cont |-> cont, sect |-> sect, line |-> l]

RowStep(st, ls, i) ==
    With(Strip(ls[i]), LAMBDA l :
        IF l = <<>> THEN st
        ELSE IF Len(l) >= 3 /\ l[1] \in OpenKw /\ l[2] = " "
        THEN [st EXCEPT !.cont = <<l[1], l[3]>>, !.sect = "",
                        !.rows = Append(@, Row("open", <<l[1], l[3]>>, "", l))]
        ELSE IF Len(l) = 1 /\ l[1] \in CloseKw
        THEN [st EXCEPT !.cont = <<>>, !.sect = "",
                        !.rows = Append(@, Row("close", st.cont, "", l))]
        ELSE IF Len(l) = 1 /\ l[1] \in SectKw
        THEN [st EXCEPT !.sect = l[1], !.rows = Append(@, Row("section", st.cont, l[1], l))]
        ELSE IF Len(l) = 1 /\ l[1] \in EndSectKw
        THEN [st EXCEPT !.sect = "", !.rows = Append(@, Row("end", st.cont, st.sect, l))]
        ELSE [st EXCEPT !.rows = Append(@, Row("item", st.cont, st.sect, l))])

Rows(text) ==
    With(SplitLines(text), LAMBDA ls :
        Fold(RowStep, ls, 1, Len(ls), [cont |-> <<>>, sect |-> "", rows |-> <<>>]).rows)

RowSet(rows) == {rows[k] : k \in 1..Len(rows)}

\* the names the statements of section sect of block cont begin with
NamesIn(rows, cont, sect) ==
    {<<r.line[1]>> : r \in {x \in RowSet(rows) : x.what = "item" /\ x.cont = cont /\ x.sect = sect}}

\* block cont is opened in the text
Opened(rows, cont) == \E r \in RowSet(rows) : r.what = "open" /\ r.cont = cont

\* ------------------------------------------------------------------------
\* export_whitelist on files with a TAG section of the controller and of
\* two programs
\* ------------------------------------------------------------------------
TagStatement(n) == CHOOSE st \in TagStatements : st.name = n

TagSection(names) ==
    <<<<"TAG">>>> \o [k \in 1..Len(names) |-> StatementText(TagStatement(names[k]))]
        \o <<<<"END_TAG">>>>

ProgramBlock(n, names) == <<ProgramLine(n)>> \o TagSection(names) \o <<<<"END_PROGRAM">>>>

TagLists == {<<>>, <<<<"a">>>>, <<<<"c">>>>, <<<<"a">>, <<"c">>>>}

TagFiles ==
    {<<ControllerLine>> \o TagSection(g) \o ProgramBlock(<<"P">>, p) \o ProgramBlock(<<"Q">>, q)
         \o <<<<"END_CONTROLLER">>>> :
       g \in TagLists, p \in TagLists, q \in {<<>>, <<<<"a">>>>}}

\* program_tags with no key, and with the keys P and Q
ProgramTagSelections ==
    {<<>>} \cup {(<<"P">> :> x) @@ (<<"Q">> :> y) :
                    x \in {{}, {<<"c">>}, {<<"a">>, <<"c">>}}, y \in SUBSET {<<"a">>}}

TagSelections ==
    {Selection({}, <<>>, {}, <<>>, <<>>, t, pt) :
       t \in {{}, {<<"a">>}, {<<"a">>, <<"c">>}}, pt \in ProgramTagSelections}

InitExportTags == InitWith(<<>>)
ReadTagFile == ReadFile(TagFiles)
ExportTags == ExportWhitelist(TagSelections)
NextExportTags == ReadTagFile \/ ResolveNestedTypes \/ ExportTags
SpecExportTags == InitExportTags /\ [][NextExportTags]_vars

\* C11: export_whitelist writes a PROGRAM block for program P exactly when
\* program_tags[P] of the selection is not empty; the TAG section of that
\* block holds statements for exactly the tags of P that are named there;
\* the statements of the controller's TAG section are those of the global
\* tags named in the selection's tags, and no statement stands elsewhere
C11_ProgramBlocksAsSelected ==
    output.by = "export_whitelist" =>
        LET rows == Rows(output.text)
            sel == output.selection
        IN /\ \A n \in DictKeys(parser.project.programs) :
                 /\ Opened(rows, <<"PROGRAM">> \o n) <=> SelGet(sel.program_tags, n) # {}
                 /\ NamesIn(rows, <<"PROGRAM">> \o n, "TAG")
                        = DictKeys(parser.project.programs.val[n].tags)
                             \cap SelGet(sel.program_tags, n)
                 /\ NamesIn(rows, <<"PROGRAM">> \o n, "") = {}
           /\ NamesIn(rows, <<>>, "TAG") = DictKeys(parser.project.tags) \cap sel.tags
           /\ \A r \in RowSet(rows) :
                 (r.what = "item" /\ r.cont = <<>> /\ r.sect = "")
                    => r.line[1] \in {"CONTROLLER", "END_CONTROLLER"}
           /\ \A r \in RowSet(rows) :
                 r.what = "open" => r.cont[1] = "PROGRAM"
                                      /\ <<r.cont[2]>> \in DictKeys(parser.project.programs)

\* program P holds the tags a and c and the controller holds a tag; the
\* selection names c of P and nothing else: the text has the block of P with
\* the statement of c alone, and no TAG section of the controller
C11_Witness ==
    /\ output.by = "export_whitelist"
    /\ DictKeys(parser.project.tags) # {}
    /\ DictHas(parser.project.programs, <<"P">>)
    /\ DictHas(parser.project.programs, <<"Q">>)
    /\ DictKeys(parser.project.programs.val[<<"P">>].tags) = {<<"a">>, <<"c">>}
    /\ output.selection.tags = {}
    /\ output.selection.program_tags = (<<"P">> :> {<<"c">>}) @@ (<<"Q">> :> {})
    /\ NamesIn(Rows(output.text), <<"PROGRAM", "P">>, "TAG") = {<<"c">>}
    /\ ~Opened(Rows(output.text), <<"PROGRAM", "Q">>)
    /\ \A r \in RowSet(Rows(output.text)) : r.sect = "TAG" => r.cont = <<"PROGRAM", "P">>

\* ------------------------------------------------------------------------
\* export_whitelist on files with the type definitions U and T
\* ------------------------------------------------------------------------
PlainV == <<" ", "INT", " ", "V", ";">>

DatatypeBlock(name, members) ==
    <<<<"DATATYPE", " ">> \o name \o <<" ", "(", "FamilyType", " ", ":=", " ", "NoFamily", ")">>>>
        \o members \o <<<<"END_DATATYPE">>>>

MemberLists == {<<PlainW>>, <<PlainW, PlainV>>, <<HiddenDecl, AliasA, PlainV>>}

TypeFiles ==
    {<<ControllerLine>> \o DatatypeBlock(<<"U">>, u) \o DatatypeBlock(<<"T">>, t)
         \o <<<<"END_CONTROLLER">>>> :
       u \in MemberLists, t \in {<<PlainW>>}}

\* udt_members with no key, and with the key U
MemberSelections ==
    {<<>>} \cup {<<"U">> :> x : x \in {{}, {<<"W">>}, {<<"A">>}, {<<"W">>, <<"V">>}}}

TypeSelections ==
    {Selection(u, m, {}, <<>>, <<>>, {}, <<>>) :
       u \in {{}, {<<"U">>}, {<<"U">>, <<"T">>}}, m \in MemberSelections}

InitExportTypes == InitWith(<<>>)
ReadTypeFile == ReadFile(TypeFiles)
ExportTypes == ExportWhitelist(TypeSelections)
NextExportTypes == ReadTypeFile \/ ResolveNestedTypes \/ ExportTypes
SpecExportTypes == InitExportTypes /\ [][NextExportTypes]_vars

\* the names of the members whose lines stand in block cont of the text
\* (a member line is  <type> <name> ...;  or  BIT <name> <word> : <bit> ...;)
MemberNamesIn(rows, cont) ==
    {<<r.line[3]>> : r \in {x \in RowSet(rows) : x.what = "item" /\ x.cont = cont}}

\* C12: a type definition written by export_whitelist holds a member line
\* only for the members that udt_members names for that type
C12_OnlySelectedMembers ==
    output.by = "export_whitelist" =>
        \A n \in DictKeys(parser.project.udts) :
            MemberNamesIn(Rows(output.text), <<"DATATYPE">> \o n)
                \subseteq SelGet(output.selection.udt_members, n)

\* C13 (type definitions): a type definition is written whenever its name is
\* in udts or its entry of udt_members is not empty, and the export returns
C13_ContainerWhenEitherSelected ==
    output.by = "export_whitelist" =>
        \A n \in DictKeys(parser.project.udts) :
            (n \in output.selection.udts \/ SelGet(output.selection.udt_members, n) # {})
                => Opened(Rows(output.text), <<"DATATYPE">> \o n)

\* ------------------------------------------------------------------------
\* export_whitelist on files with the instruction definitions A and B
\* ------------------------------------------------------------------------
InstructionBlock(n, params, locals) ==
    <<HeaderOf(n), <<"PARAMETERS">>>> \o params
        \o <<<<"END_PARAMETERS">>, <<"LOCAL_TAGS">>>> \o locals
        \o <<<<"END_LOCAL_TAGS">>, EndInstruction>>

ParamLists == {<<>>, <<LocalLine("p", "DINT")>>, <<LocalLine("p", "DINT"), OfLine("q", "l", "3")>>}
LocalLists == {<<>>, <<LocalLine("l", "DINT")>>, <<LocalLine("l", "DINT"), LocalLine("k", "INT")>>}

InstructionFiles ==
    {<<ControllerLine>> \o InstructionBlock(<<"A">>, ps, ls)
         \o InstructionBlock(<<"B">>, <<LocalLine("p", "DINT")>>, <<>>)
         \o <<<<"END_CONTROLLER">>>> :
       ps \in ParamLists, ls \in LocalLists}

\* a name that no file declares
Foreign == <<"Zed">>

ParamSelections ==
    {<<>>, <<"A">> :> {<<"p">>}, <<"A">> :> {Foreign},
     (<<"A">> :> {<<"p">>, <<"q">>}) @@ (<<"B">> :> {<<"p">>})}

LocalSelections == {<<>>, <<"A">> :> {<<"l">>}, <<"A">> :> {Foreign}}

InstructionSelections ==
    {Selection({}, <<>>, a, ps, ls, {}, <<>>) :
       a \in {{}, {<<"A">>}}, ps \in ParamSelections, ls \in LocalSelections}

InitExportInstructions == InitWith(<<>>)
ReadInstructionFile == ReadFile(InstructionFiles)
ExportInstructions == ExportWhitelist(InstructionSelections)
NextExportInstructions == ReadInstructionFile \/ ResolveNestedTypes \/ ExportInstructions
SpecExportInstructions == InitExportInstructions /\ [][NextExportInstructions]_vars

\* how many rows of kind `what` block cont has for section sect
CountRows(rows, what, cont, sect) ==
    Cardinality({k \in 1..Len(rows) :
                    rows[k].what = what /\ rows[k].cont = cont /\ rows[k].sect = sect})

\* how many statements of section sect of block cont begin with name
CountItems(rows, cont, sect, name) ==
    Cardinality({k \in 1..Len(rows) :
                    /\ rows[k].what = "item" /\ rows[k].cont = cont /\ rows[k].sect = sect
                    /\ <<rows[k].line[1]>> = name})

\* the LOCAL_TAGS section of the instruction definition n written to the
\* text: one section, with the selected local tags of the model, and with
\* the placeholder exactly when n is in aois and no selected local tag is
\* written
LocalSectionAsSelected(rows, sel, n) ==
    LET cont == <<"ADD_ON_INSTRUCTION_DEFINITION">> \o n
        written == DictKeys(parser.project.aois.val[n].localtags)
                       \cap SelGet(sel.aoi_localtags, n)
    IN /\ CountRows(rows, "section", cont, "LOCAL_TAGS") = 1
       /\ CountRows(rows, "end", cont, "LOCAL_TAGS") = 1
       /\ NamesIn(rows, cont, "LOCAL_TAGS") \ {<<"__PlaceHolder">>} = written
       /\ CountItems(rows, cont, "LOCAL_TAGS", <<"__PlaceHolder">>)
             = (IF n \in sel.aois /\ written = {} THEN 1 ELSE 0)

\* C14: every instruction definition written by export_whitelist has exactly
\* one LOCAL_TAGS section, which holds the selected local tags of the model
\* and the placeholder exactly when the name is in aois and no selected
\* local tag is written; it has a PARAMETERS section only when at least one
\* parameter of the instruction is selected
C14_InstructionSections ==
    output.by = "export_whitelist" =>
        \A n \in DictKeys(parser.project.aois) :
            Opened(Rows(output.text), <<"ADD_ON_INSTRUCTION_DEFINITION">> \o n) =>
                /\ LocalSectionAsSelected(Rows(output.text), output.selection, n)
                /\ CountRows(Rows(output.text), "section",
                             <<"ADD_ON_INSTRUCTION_DEFINITION">> \o n, "PARAMETERS") > 0
                      => DictKeys(parser.project.aois.val[n].parameters)
                             \cap SelGet(output.selection.aoi_parameters, n) # {}

\* ------------------------------------------------------------------------
\* export_whitelist of everything, on files with a type definition, an
\* instruction definition, a TAG section of the controller and a program
\* ------------------------------------------------------------------------
WholeFiles ==
    {<<ControllerLine>> \o DatatypeBlock(<<"U">>, u)
         \o InstructionBlock(<<"B">>, <<LocalLine("p", "DINT")>>, l)
         \o TagSection(g) \o ProgramBlock(<<"P">>, t) \o <<<<"END_CONTROLLER">>>> :
       u \in {<<PlainW>>, <<HiddenDecl, AliasA>>},
       l \in {<<>>, <<LocalLine("l", "DINT")>>},
       g \in {<<>>, <<<<"a">>>>},
       t \in {<<>>, <<<<"c">>>>}}

\* the selection that names every entity of the project
Everything(project) ==
    Selection(DictKeys(project.udts),
              [n \in DictKeys(project.udts) |-> DictKeys(project.udts.val[n].members)],
              DictKeys(project.aois),
              [n \in DictKeys(project.aois) |-> DictKeys(project.aois.val[n].parameters)],
              [n \in DictKeys(project.aois) |-> DictKeys(project.aois.val[n].localtags)],
              DictKeys(project.tags),
              [n \in DictKeys(project.programs) |-> DictKeys(project.programs.val[n].tags)])

NoSelection == Selection({}, <<>>, {}, <<>>, <<>>, {}, <<>>)

InitExportAll == InitWith(<<>>)
ReadWholeFile == ReadFile(WholeFiles)
ExportAll == ExportWhitelist({Everything(parser.project), NoSelection})
NextExportAll == ReadWholeFile \/ ResolveNestedTypes \/ ExportAll
SpecExportAll == InitExportAll /\ [][NextExportAll]_vars

\* the names of all entities of the project
EntityNames(project) ==
    DictKeys(project.udts) \cup DictKeys(project.aois) \cup DictKeys(project.tags)
        \cup DictKeys(project.programs)
        \cup UNION {DictKeys(project.udts.val[n].members) : n \in DictKeys(project.udts)}
        \cup UNION {DictKeys(project.aois.val[n].parameters) : n \in DictKeys(project.aois)}
        \cup UNION {DictKeys(project.aois.val[n].localtags) : n \in DictKeys(project.aois)}
        \cup UNION {DictKeys(project.programs.val[n].tags) : n \in DictKeys(project.programs)}

\* the words of a text
WordsOf(text) == {<<text[k]>> : k \in 1..Len(text)}

\* C15: when the selection names every entity of the model, the name of
\* every entity, programs included, stands in the text export_whitelist
\* returns
C15_EverythingKeepsEveryName ==
    (output.by = "export_whitelist" /\ output.selection = Everything(parser.project))
        => EntityNames(parser.project) \subseteq WordsOf(output.text)

\* ------------------------------------------------------------------------
\* export_whitelist on files with a header comment before the controller
\* ------------------------------------------------------------------------
HeaderOpen == <<"(", "*****">>
HeaderClose == <<"*****", ")">>
HeaderText == <<" ", "Import", "-", "Export">>
IeVer == <<"IE_VER", " ", ":=", " ", "2", ".", "11", ";">>

\* CONTROLLER C (Major := 1,  on one line and  Minor := 2)  on the next
ControllerOpen == <<"CONTROLLER", " ", "C", " ", "(", "Major", " ", ":=", " ", "1", ",">>
ControllerClose == <<" ", "Minor", " ", ":=", " ", "2", ")">>

HeaderFiles ==
    {h \o g \o c \o TagSection(<<<<"a">>>>) \o <<<<"END_CONTROLLER">>>> :
       h \in {<<>>, <<HeaderOpen, HeaderText, HeaderClose>>, <<HeaderOpen, HeaderText>>},
       g \in {<<>>, <<IeVer>>, <<IeVer, <<>>>>},
       c \in {<<ControllerLine>>, <<ControllerOpen, ControllerClose>>}}

HeaderSelections == {NoSelection, Selection({}, <<>>, {}, <<>>, <<>>, {<<"a">>}, <<>>)}

InitExportHeader == InitWith(<<>>)
ReadHeaderFile == ReadFile(HeaderFiles)
ExportHeader == ExportWhitelist(HeaderSelections)
NextExportHeader == ReadHeaderFile \/ ResolveNestedTypes \/ ExportHeader
SpecExportHeader == InitExportHeader /\ [][NextExportHeader]_vars

IsPrefix(a, b) == Len(a) <= Len(b) /\ SubSeq(b, 1, Len(a)) = a

\* where the lines `block` stand in the lines ls
Occurrences(block, ls) ==
    {k \in 1..(Len(ls) - Len(block) + 1) : SubSeq(ls, k, k + Len(block) - 1) = block}

\* the header block of the lines ls: from the first opening delimiter to the
\* first closing delimiter after it and the two lines that follow, as far as
\* there are lines; no line when there is no opening delimiter
HeaderBlock(ls) ==
    LET opens == {i \in 1..Len(ls) : IsHeaderOpen(ls[i])}
        open == MinOf(opens)
        closes == {j \in open..Len(ls) : IsHeaderClose(ls[j])}
        close == IF closes = {} THEN open ELSE MinOf(closes)
    IN IF opens = {} THEN <<>>
       ELSE [k \in 1..(Min(close + 2, Len(ls)) - open + 1) |-> ls[open + k - 1]]

\* C16: the text export_whitelist returns begins with the header text, which
\* is the header block of the file (nothing when no line opens a header);
\* it holds the controller header lines exactly once; its last line that is
\* not empty is END_CONTROLLER, and no other line is
C16_HeaderControllerAndEnd ==
    output.by = "export_whitelist" =>
        LET out == SplitLines(output.text)
            filled == {k \in 1..Len(out) : out[k] # <<>>}
        IN /\ parser.header_text = JoinWith(HeaderBlock(lines), NL)
           /\ IsPrefix(parser.header_text, output.text)
           /\ HeaderBlock(lines) = <<>> => out[1][1] = "CONTROLLER"
           /\ parser.controller_header_lines # <<>>
                 => Cardinality(Occurrences(parser.controller_header_lines, out)) = 1
           /\ out[MaxOf(filled)] = <<"END_CONTROLLER">>
           /\ Cardinality(Occurrences(<<<<"END_CONTROLLER">>>>, out)) = 1

\* ------------------------------------------------------------------------
\* get_selected_content on files with a type definition, an instruction
\* definition and a TAG section
\* ------------------------------------------------------------------------
\* q : INT (  on one line and  Radix := Decimal);  on the next
ParamOpen == <<" ", "q", " ", ":", " ", "INT", " ", "(">>
ParamClose == <<" ", " ", "Radix", " ", ":=", " ", "Decimal", ")", ";">>

BlockParamLists ==
    {<<>>, <<LocalLine("p", "DINT")>>, <<ParamOpen, ParamClose>>,
     <<ParamOpen, ParamClose, LocalLine("p", "DINT")>>,
     <<LocalLine("p", "DINT"), ParamOpen, ParamClose>>}

BlockFiles ==
    {<<ControllerLine>> \o DatatypeBlock(<<"U">>, u) \o InstructionBlock(<<"A">>, ps, ls)
         \o TagSection(<<<<"a">>>>) \o <<<<"END_CONTROLLER">>>> :
       u \in {<<PlainW>>, <<HiddenDecl, AliasA>>},
       ps \in BlockParamLists,
       ls \in {<<>>, <<LocalLine("l", "DINT")>>}}

BlockSelections ==
    {Selection(u[1], u[2], {}, <<>>, <<>>, {}, <<>>) :
       u \in {<<{}, <<>>>>, <<{<<"U">>}, <<>>>>, <<{}, <<"U">> :> {<<"A">>}>>,
              <<{}, <<"U">> :> {<<"W">>}>>}}
    \cup {Selection({}, <<>>, a[1], a[2], a[3], {}, <<>>) :
            a \in {<<{<<"A">>}, <<>>, <<>>>>, <<{}, <<"A">> :> {<<"p">>}, <<>>>>,
                   <<{}, <<"A">> :> {<<"q">>}, <<>>>>, <<{}, <<>>, <<"A">> :> {<<"l">>}>>}}
    \cup {Selection({}, <<>>, {}, <<>>, <<>>, {<<"a">>}, <<>>)}

InitFilterBlocks == InitWith(<<>>)
ReadBlockFile == ReadFile(BlockFiles)
FilterBlocks == GetSelectedContent(BlockSelections)
NextFilterBlocks == ReadBlockFile \/ ResolveNestedTypes \/ FilterBlocks
SpecFilterBlocks == InitFilterBlocks /\ [][NextFilterBlocks]_vars

\* C17: get_selected_content writes the block of a type definition only if
\* the type or one of its members is selected, the block of an instruction
\* definition only if one of its parameters or local tags is selected, and
\* a TAG section only if one of the tags is selected
C17_BlockOnlyIfSelected ==
    output.by = "get_selected_content" =>
        LET rows == Rows(output.text)
            sel == output.selection
        IN /\ \A n \in DictKeys(parser.project.udts) :
                 Opened(rows, <<"DATATYPE">> \o n) =>
                     \/ n \in sel.udts
                     \/ DictKeys(parser.project.udts.val[n].members)
                            \cap SelGet(sel.udt_members, n) # {}
           /\ \A n \in DictKeys(parser.project.aois) :
                 Opened(rows, <<"ADD_ON_INSTRUCTION_DEFINITION">> \o n) =>
                     \/ DictKeys(parser.project.aois.val[n].parameters)
                            \cap SelGet(sel.aoi_parameters, n) # {}
                     \/ DictKeys(parser.project.aois.val[n].localtags)
                            \cap SelGet(sel.aoi_localtags, n) # {}
           /\ CountRows(rows, "section", <<>>, "TAG") > 0
                 => DictKeys(parser.project.tags) \cap sel.tags # {}

\* the stripped lines of block cont in the text
BlockLines(text, cont) ==
    With(SelectSeq(Rows(text), LAMBDA r : r.cont = cont), LAMBDA rows :
        [k \in 1..Len(rows) |-> rows[k].line])

\* C18: in the block of an instruction definition that get_selected_content
\* writes or in which a parameter or local tag is selected, every statement
\* stands once, as its stored definition, and the
\* lines after a statement (the next statement, END_PARAMETERS,
\* END_LOCAL_TAGS, the end of the block) are there as in the source, whether
\* the statement takes one line or two
C18_SkipsOnlyTheStatement ==
    (/\ output.by = "get_selected_content"
     /\ DictHas(parser.project.aois, <<"A">>)
     /\ \E k \in 1..Len(lines) : lines[k] = EndInstruction
     /\ \/ Opened(Rows(output.text), <<"ADD_ON_INSTRUCTION_DEFINITION", "A">>)
        \/ DictKeys(parser.project.aois.val[<<"A">>].parameters)
               \cap SelGet(output.selection.aoi_parameters, <<"A">>) # {}
        \/ DictKeys(parser.project.aois.val[<<"A">>].localtags)
               \cap SelGet(output.selection.aoi_localtags, <<"A">>) # {})
        => BlockLines(output.text, <<"ADD_ON_INSTRUCTION_DEFINITION", "A">>)
              = BlockLines(JoinWith(lines, NL), <<"ADD_ON_INSTRUCTION_DEFINITION", "A">>)

\* ------------------------------------------------------------------------
\* get_selected_content on TAG sections whose statements take one or two
\* lines
\* ------------------------------------------------------------------------
\* the statement of st on two lines: the declaration, then  := value;
SplitStatement(st) ==
    << <<" ">> \o st.name \o <<" ", ":", " ">> \o st.type \o <<" ">> \o AttrGroup(st),
       <<" ", " ", ":=", " ">> \o st.value \o <<";">> >>

StatementForms(n) == {<<StatementText(TagStatement(n))>>, SplitStatement(TagStatement(n))}

FilterTagFiles ==
    {<<ControllerLine, <<"TAG">>>> \o body \o <<<<"END_TAG">>, <<"END_CONTROLLER">>>> :
       body \in {<<>>} \cup StatementForms(<<"a">>) \cup StatementForms(<<"c">>)
                  \cup {x \o y : x \in StatementForms(<<"a">>), y \in StatementForms(<<"c">>)}
                  \cup {y \o x : x \in StatementForms(<<"a">>), y \in StatementForms(<<"c">>)}}

FilterTagSelections ==
    {Selection({}, <<>>, {}, <<>>, <<>>, t, <<>>) : t \in SUBSET {<<"a">>, <<"c">>}}

InitFilterTags == InitWith(<<>>)
ReadFilterTagFile == ReadFile(FilterTagFiles)
FilterTags == GetSelectedContent(FilterTagSelections)
NextFilterTags == ReadFilterTagFile \/ ResolveNestedTypes \/ FilterTags
SpecFilterTags == InitFilterTags /\ [][NextFilterTags]_vars

\* the stripped lines of the stored definitions of the tags named
DefinitionLines(tags, names) ==
    UNION {{Strip(l) : l \in RowSet(SplitLines(tags.val[n].definition))} :
             n \in DictKeys(tags) \cap names}

\* C19: in the text get_selected_content writes, the lines of the TAG
\* section are lines of the stored definitions of selected tags, every
\* selected tag of the section is there, no line of the section stands
\* outside it (outside the section there are only the CONTROLLER and
\* END_CONTROLLER lines), and TAG / END_TAG are written only if a tag of the
\* section is selected
C19_TagSectionFromModelOnly ==
    output.by = "get_selected_content" =>
        LET rows == Rows(output.text)
            sel == output.selection
        IN /\ \A r \in RowSet(rows) :
                 (r.what = "item" /\ r.sect = "TAG")
                    => r.line \in DefinitionLines(parser.project.tags, sel.tags)
           /\ \A r \in RowSet(rows) :
                 (r.what = "item" /\ r.sect = "")
                    => r.line[1] \in {"CONTROLLER", "END_CONTROLLER"}
           /\ CountRows(rows, "section", <<>>, "TAG") > 0
                 => DictKeys(parser.project.tags) \cap sel.tags # {}

\* ------------------------------------------------------------------------
\* get_selected_content on files with routines
\* ------------------------------------------------------------------------
RoutineLine == <<"ROUTINE", " ", "ShouldSkip">>
RungXic == <<" ", "N", ":", " ", "XIC", "(", "a", ")", ";">>
RungOte == <<" ", "N", ":", " ", "OTE", "(", "c", ")", ";">>
EndRoutine == <<"END_ROUTINE">>

RoutineBlocks == {<<>>, <<RoutineLine, EndRoutine>>, <<RoutineLine, RungXic, RungOte, EndRoutine>>}

\* an instruction definition with its parameters and, after them, a routine
RoutineInstruction(params, routine) ==
    <<HeaderOf(<<"A">>), <<"PARAMETERS">>>> \o params \o <<<<"END_PARAMETERS">>>>
        \o routine \o <<EndInstruction>>

RoutineFiles ==
    {<<ControllerLine>> \o a \o r \o TagSection(<<<<"a">>>>) \o <<<<"END_CONTROLLER">>>> :
       a \in {<<>>} \cup {RoutineInstruction(ps, ar) :
                            ps \in {<<>>, <<LocalLine("p", "DINT")>>, <<ParamOpen, ParamClose>>},
                            ar \in RoutineBlocks},
       r \in RoutineBlocks}

RoutineSelections ==
    {Selection({}, <<>>, {}, ps, <<>>, t, <<>>) :
       ps \in {<<>>, <<"A">> :> {<<"p">>, <<"q">>}}, t \in SUBSET {<<"a">>}}

InitFilterRoutines == InitWith(<<>>)
ReadRoutineFile == ReadFile(RoutineFiles)
FilterRoutines == GetSelectedContent(RoutineSelections)
NextFilterRoutines == ReadRoutineFile \/ ResolveNestedTypes \/ FilterRoutines
SpecFilterRoutines == InitFilterRoutines /\ [][NextFilterRoutines]_vars

\* the lines without the routines: from a ROUTINE line to the next
\* END_ROUTINE line, both included
WithoutRoutines(ls) ==
    SelectSeq([k \in 1..Len(ls) |->
                  IF \E i \in 1..k :
                        /\ ls[i] = RoutineLine
                        /\ \A j \in i..(k - 1) : ls[j] # EndRoutine
                  THEN <<>> ELSE ls[k]],
              LAMBDA l : l # <<>>)

\* C20: the text get_selected_content writes has no ROUTINE line, no
\* END_ROUTINE line and no line of a routine, and it is the text written for
\* the same file without its routines
C20_RoutinesElided ==
    output.by = "get_selected_content" =>
        /\ \A r \in RowSet(Rows(output.text)) :
              /\ r.line[1] \notin {"ROUTINE", "END_ROUTINE"}
              /\ r.line \notin {Strip(RungXic), Strip(RungOte)}
        /\ output.text
              = get_selected_content(Scan(NewParser, WithoutRoutines(lines)),
                                     WithoutRoutines(lines), output.selection)

\* ------------------------------------------------------------------------
\* PROGRAM headers with descriptions, given more than once
\* ------------------------------------------------------------------------
\* the descriptions as they stand between the quotes of a header: none, two
\* plain ones and  x$"y  with an escaped quote
Descriptions == {<<>>, <<"d">>, <<"e">>, <<"x", "$", "\"", "y">>}

ProgramHeader(n, d) ==
    ProgramLine(n) \o (IF d = <<>> THEN <<>> ELSE <<" ", "(">> \o DescAttr(d) \o <<")">>)

HeaderBlock3(n, d, names) == <<ProgramHeader(n, d)>> \o TagSection(names) \o <<<<"END_PROGRAM">>>>

ProgramHeaderFiles ==
    {<<ControllerLine>> \o HeaderBlock3(<<"P">>, d1, <<<<"a">>>>)
         \o HeaderBlock3(n2, d2, <<<<"c">>>>)
         \o <<ProgramHeader(<<"P">>, d3), <<"END_PROGRAM">>, <<"END_CONTROLLER">>>> :
       d1 \in Descriptions, n2 \in ProgramNames, d2 \in Descriptions, d3 \in {<<>>, <<"e">>}}

ProgramHeaderSelections ==
    {Selection({}, <<>>, {}, <<>>, <<>>, {}, <<"P">> :> {<<"a">>, <<"c">>}),
     Selection({}, <<>>, {}, <<>>, <<>>, {}, (<<"P">> :> {<<"a">>}) @@ (<<"Q">> :> {<<"c">>}))}

InitProgramHeaders == InitWith(<<>>)
ReadProgramHeaderFile == ReadFile(ProgramHeaderFiles)
ExportProgramHeaders == ExportWhitelist(ProgramHeaderSelections)
NextProgramHeaders == ReadProgramHeaderFile \/ ResolveNestedTypes \/ ExportProgramHeaders
SpecProgramHeaders == InitProgramHeaders /\ [][NextProgramHeaders]_vars

\* the lines that are a header of program n
HeadersOf(ls, n) == {k \in 1..Len(ls) : \E d \in Descriptions : ls[k] = ProgramHeader(n, d)}

\* the description of the first header of n that carries one
FirstDescription(ls, n) ==
    IF \E k \in HeadersOf(ls, n) : ls[k] # ProgramLine(n)
    THEN With(MinOf({k \in HeadersOf(ls, n) : ls[k] # ProgramLine(n)}), LAMBDA k :
             CHOOSE d \in Descriptions : ls[k] = ProgramHeader(n, d))
    ELSE <<>>

\* the tags whose statement stands after a header of n with no other header between
DeclaredIn(ls, n) ==
    {st.name : st \in {st \in TagStatements :
        \E k \in 1..Len(ls) :
            /\ ls[k] = StatementText(st)
            /\ \E h \in HeadersOf(ls, n) :
                  h < k /\ \A m \in ProgramNames : HeadersOf(ls, m) \cap (h + 1)..k = {}}}

\* C21: a program whose header is given once or more is one Program with
\* the tags of all its blocks and the description of its first header that
\* carries one, and export_whitelist writes its header line with that
\* description as it stands in the source
C21_ProgramHeaderKept ==
    \A n \in ProgramNames :
        HeadersOf(lines, n) # {} =>
            /\ DictHas(parser.project.programs, n)
            /\ DictKeys(parser.project.programs.val[n].tags) = DeclaredIn(lines, n)
            /\ parser.project.programs.val[n].description = FirstDescription(lines, n)
            /\ (output.by = "export_whitelist" /\ SelGet(output.selection.program_tags, n) # {})
                  => \E r \in RowSet(Rows(output.text)) :
                        r.what = "open"
                           /\ r.line = ProgramHeader(n, FirstDescription(lines, n))

\* ------------------------------------------------------------------------
\* An instruction definition given by a plain header or by ENCODED_DATA
\* ------------------------------------------------------------------------
PlainHeader == HeaderOf(<<"X">>) \o <<" ", "(">> \o DescAttr(<<"d">>) \o <<")">>

EncodedTypeAttr == <<"EncodedType", " ", ":=", " ", "ADD_ON_INSTRUCTION_DEFINITION">>
EncodedNameAttr == <<"Name", " ", ":=", " ", "\"", "X", "\"">>

\* the metadata of ENCODED_DATA on one line and on three
EncodedOneLine ==
    <<<<"ENCODED_DATA", " ", "(">> \o EncodedTypeAttr \o <<",", " ">> \o EncodedNameAttr
          \o <<",", " ">> \o DescAttr(<<"d">>) \o <<")">>>>

EncodedThreeLines ==
    <<<<"ENCODED_DATA", " ", "(">> \o EncodedTypeAttr \o <<",">>,
      <<" ">> \o EncodedNameAttr \o <<",">>,
      <<" ">> \o DescAttr(<<"d">>) \o <<")">>>>

EncodedForms == {EncodedOneLine, EncodedThreeLines}

SectionsOf(params, locals) ==
    <<<<"PARAMETERS">>>> \o params \o <<<<"END_PARAMETERS">>, <<"LOCAL_TAGS">>>> \o locals
        \o <<<<"END_LOCAL_TAGS">>>>

EncodedFiles ==
    {<<ControllerLine>> \o h[1] \o SectionsOf(ps, ls) \o <<h[2], <<"END_CONTROLLER">>>> :
       h \in {<<<<PlainHeader>>, EndInstruction>>} \cup {<<f, <<"END_ENCODED_DATA">>>> : f \in EncodedForms},
       ps \in {<<>>, <<LocalLine("p", "DINT")>>, <<ParamOpen, ParamClose>>,
               <<LocalLine("p", "DINT"), ParamOpen, ParamClose>>},
       ls \in {<<>>, <<LocalLine("l", "DINT")>>}}

InitEncoded == InitWith(<<>>)
ReadEncodedFile == ReadFile(EncodedFiles)
NextEncoded == ReadEncodedFile \/ ResolveNestedTypes
SpecEncoded == InitEncoded /\ [][NextEncoded]_vars

\* the file with the plain header in the place of the metadata form f and
\* the plain end line in the place of END_ENCODED_DATA
PlainOf(ls, f) ==
    <<ls[1], PlainHeader>>
        \o [k \in 1..(Len(ls) - 1 - Len(f)) |->
               IF ls[k + 1 + Len(f)] = <<"END_ENCODED_DATA">> THEN EndInstruction
               ELSE ls[k + 1 + Len(f)]]

\* C22: a file that gives the instruction definition X by ENCODED_DATA, the
\* metadata on one line or on three, yields before resolution the same
\* instruction definitions as the file with the plain header
C22_EncodedEqualsPlain ==
    \A f \in EncodedForms :
        (passes = 0 /\ Len(lines) >= 1 + Len(f) /\ Slice(lines, 2, 1 + Len(f)) = f)
            => parser.project.aois = Scan(NewParser, PlainOf(lines, f)).project.aois

\* ------------------------------------------------------------------------
\* Calls of the functions of strings.py on strings of single characters
\* ------------------------------------------------------------------------
\* no parser is run
ParserIdle ==
    /\ lines = <<>> /\ parser = NewParser /\ passes = 0 /\ raised = FALSE
    /\ output = NoOutput

\* the strings of at most n characters of the alphabet
StringsOf(alphabet, n) == UNION {[1..k -> alphabet] : k \in 0..n}

MaxEncodeLen == 3
EncodeAlphabet == {"$", "\"", "'", CR, NL, "R", "N", "a"}

\* a call of fn with the argument arg that has not returned yet
Called(fn, arg) == [fn |-> fn, arg |-> arg, done |-> FALSE, res |-> None]

\* the call returns res
Return(res) == call' = [call EXCEPT !.done = TRUE, !.res = res]

InitEncode ==
    /\ ParserIdle /\ buffer = None /\ tree = None /\ app = None
    /\ call \in {Called("encode_l5k_string", s) : s \in StringsOf(EncodeAlphabet, MaxEncodeLen)}

Encode ==
    /\ ~call.done
    /\ Return(encode_l5k_string(call.arg))
    /\ UNCHANGED <<parse_vars, buffer, tree, app>>

NextEncode == Encode
SpecEncode == InitEncode /\ [][NextEncode]_vars

\* decoding left to right: $$ is $, $" is ", $' is ', $R is CR, $N is LF
RECURSIVE Decode(_)
Decode(s) ==
    IF s = <<>> THEN <<>>
    ELSE IF s[1] = "$" /\ Len(s) >= 2 /\ s[2] \in {"$", "\"", "'", "R", "N"}
    THEN <<IF s[2] = "R" THEN CR ELSE IF s[2] = "N" THEN NL ELSE s[2]>>
             \o Decode(SubSeq(s, 3, Len(s)))
    ELSE <<s[1]>> \o Decode(Tail(s))

\* C23: decoding the result of encode_l5k_string gives the string encoded
C23_EncodeInvertible ==
    (call # None /\ call.fn = "encode_l5k_string" /\ call.done)
        => Decode(call.res) = call.arg

\* the string  $N"  was encoded as  $$N$"
C23_Witness ==
    /\ call # None /\ call.fn = "encode_l5k_string" /\ call.done
    /\ call.arg = <<"$", "N", "\"">>
    /\ call.res = <<"$", "$", "N", "$", "\"">>

\* ------------------------------------------------------------------------
\* first_outside_parens on strings with quotes and groups of every kind
\* ------------------------------------------------------------------------
MaxScanLen == 4
ScanAlphabet == {"(", ")", "[", "]", "\"", "'", "$", ";", "a"}

InitScan ==
    /\ ParserIdle /\ buffer = None /\ tree = None /\ app = None
    /\ call \in {Called("first_outside_parens", [s |-> s, target |-> ";"]) :
                   s \in StringsOf(ScanAlphabet, MaxScanLen)}

FirstOutsideParens ==
    /\ ~call.done
    /\ Return(first_outside_parens(call.arg.s, call.arg.target))
    /\ UNCHANGED <<parse_vars, buffer, tree, app>>

NextScan == FirstOutsideParens
SpecScan == InitScan /\ [][NextScan]_vars

\* the quote that is open before the character at i: "'", "\"" or none,
\* `$` inside a string taking the next character with it
RECURSIVE QuoteBefore(_, _)
QuoteBefore(s, i) ==
    IF i = 1 THEN [q |-> "none", esc |-> FALSE]
    ELSE With(QuoteBefore(s, i - 1), LAMBDA b :
         IF b.q = "none"
         THEN [q |-> IF s[i - 1] \in {"'", "\""} THEN s[i - 1] ELSE "none", esc |-> FALSE]
         ELSE IF b.esc THEN [b EXCEPT !.esc = FALSE]
         ELSE IF s[i - 1] = "$" THEN [b EXCEPT !.esc = TRUE]
         ELSE IF s[i - 1] = b.q THEN [q |-> "none", esc |-> FALSE]
         ELSE b)

Closer == ("(" :> ")") @@ ("[" :> "]") @@ ("{" :> "}")

\* the groups open before the character at i, the innermost last: outside
\* strings an opening character opens a group and a closing character
\* closes the innermost group if it is of its kind
RECURSIVE OpenBefore(_, _)
OpenBefore(s, i) ==
    IF i = 1 THEN <<>>
    ELSE With(OpenBefore(s, i - 1), LAMBDA g :
         IF QuoteBefore(s, i - 1).q # "none" THEN g
         ELSE IF s[i - 1] \in DOMAIN Closer THEN Append(g, s[i - 1])
         ELSE IF g # <<>> /\ s[i - 1] = Closer[g[Len(g)]] THEN SubSeq(g, 1, Len(g) - 1)
         ELSE g)

\* the token stands at i, outside every string and every open group
OutsideAt(s, target, i) ==
    s[i] = target /\ QuoteBefore(s, i).q = "none" /\ OpenBefore(s, i) = <<>>

\* C24: first_outside_parens returns -1 (here 0) or the smallest index at
\* which the token stands inside no quoted string and inside no open group
C24_FirstOutsideIsOutside ==
    (call # None /\ call.fn = "first_outside_parens" /\ call.done /\ call.res # 0)
        => /\ call.res \in 1..Len(call.arg.s)
           /\ OutsideAt(call.arg.s, call.arg.target, call.res)
           /\ \A i \in 1..(call.res - 1) : ~OutsideAt(call.arg.s, call.arg.target, i)

\* ------------------------------------------------------------------------
\* A TagBuffer fed chunk by chunk
\*   buffer.buf      the TagBuffer
\*   buffer.fed      the chunks fed since the last reset
\*   buffer.rets     what feed returned for each of them
\* flush returns Flush(buffer.buf) to its caller and leaves the buffer reset.
\* ------------------------------------------------------------------------
\* the most characters fed between two resets
MaxFed == 4
FeedAlphabet == {"(", ")", "\"", "'", "$", ";"}

InitBuffer ==
    /\ ParserIdle /\ call = None /\ tree = None /\ app = None
    /\ buffer = [buf |-> EmptyTagBuffer, fed |-> <<>>, rets |-> <<>>]

FeedChunk ==
    /\ \E chunk \in StringsOf(FeedAlphabet, MaxFed - Len(Concat(buffer.fed))) \ {<<>>} :
       \E r \in {Feed(buffer.buf, chunk)} :
          buffer' = [buf |-> r.buf, fed |-> Append(buffer.fed, chunk),
                     rets |-> Append(buffer.rets, r.complete)]
    /\ UNCHANGED <<parse_vars, call, tree, app>>

FlushBuffer ==
    /\ buffer.fed # <<>>
    /\ buffer' = [buf |-> reset(buffer.buf), fed |-> <<>>, rets |-> <<>>]
    /\ UNCHANGED <<parse_vars, call, tree, app>>

NextBuffer == FeedChunk \/ FlushBuffer
SpecBuffer == InitBuffer /\ [][NextBuffer]_vars

\* the nesting depth before the character at i: brackets outside strings
\* counted up and down, never below zero
RECURSIVE DepthBefore(_, _)
DepthBefore(s, i) ==
    IF i = 1 THEN 0
    ELSE With(DepthBefore(s, i - 1), LAMBDA d :
         IF QuoteBefore(s, i - 1).q # "none" THEN d
         ELSE IF s[i - 1] \in DOMAIN Closer THEN d + 1
         ELSE IF s[i - 1] \in {Closer[o] : o \in DOMAIN Closer} /\ d > 0 THEN d - 1
         ELSE d)

\* the places of chunk k in the characters of the chunks taken together
PlacesOf(fed, k) ==
    (Len(Concat(SubSeq(fed, 1, k - 1))) + 1) .. Len(Concat(SubSeq(fed, 1, k)))

\* C25: feed has returned true for a chunk iff the chunk holds a `;` before
\* which, in the characters fed since the last reset, no string is open and
\* the depth is zero; the depth is never negative, the fragments are the
\* chunks fed, what flush returns is the chunks joined by single spaces,
\* and after flush the buffer is as new
C25_FeedCompletesAtTopLevel ==
    buffer # None =>
        /\ \A k \in 1..Len(buffer.fed) :
              buffer.rets[k] <=>
                 \E i \in PlacesOf(buffer.fed, k) :
                    /\ Concat(buffer.fed)[i] = ";"
                    /\ QuoteBefore(Concat(buffer.fed), i).q = "none"
                    /\ DepthBefore(Concat(buffer.fed), i) = 0
        /\ buffer.buf.depth >= 0
        /\ buffer.buf.parts = buffer.fed
        /\ buffer.fed = <<>> => buffer.buf = EmptyTagBuffer
        /\ Flush(buffer.buf)
              = Concat([k \in 1..Len(buffer.fed) |->
                           IF k = 1 THEN buffer.fed[k] ELSE <<" ">> \o buffer.fed[k]])

\* a string opened in the first chunk, whose `$` takes the quote that begins
\* the second chunk with it: the `;` of the second chunk is inside the
\* string and neither chunk completes the statement
C25_Witness ==
    /\ buffer # None
    /\ buffer.fed = << <<"\"", "$">>, <<"\"", ";">> >>
    /\ buffer.rets = <<FALSE, FALSE>>

\* ------------------------------------------------------------------------
\* L5KTunerApp: parse jobs on the executor (gui.py)
\*   app.jobs          the futures of the ThreadPoolExecutor(max_workers=1)
\*                     in the order of submit: the content to parse, the
\*                     state pending / running / finished / cancelled and,
\*                     when finished, the outcome ok / raised
\*   app.parse_future  self._parse_future: the index of a job, 0 for None
\*   app.load_btn      the state of the Import button of the toolbar
\*   app.timers        the calls of _poll_parse_future that master.after
\*                     has scheduled and that have not run yet
\*   app.parser        self.parser: the content it was built from and the
\*                     project it holds
\*   app.project       self.project: the content it was parsed from
\* ------------------------------------------------------------------------
\* the most jobs submitted, and the files the user may choose
MaxJobs == 3
Contents == {"f", "g"}

NewApp == [jobs |-> <<>>, parse_future |-> 0, load_btn |-> "normal", timers |-> 0,
           parser |-> None, project |-> None]

\* Future.done()
done(job) == job.state \in {"finished", "cancelled"}

\* Future.cancel(): a pending future is cancelled, a running or finished one is left
cancel(job) == IF job.state = "pending" THEN [job EXCEPT !.state = "cancelled"] ELSE job

\* Executor.submit: the new future, pending until the worker takes it
\* the outcome of a future that has not finished
Unfinished == "unfinished"

submit(jobs, content) ==
    Append(jobs, [content |-> content, state |-> "pending", outcome |-> Unfinished])

\* _load_file after the file was read (lines 422-439)
load_file(a, file_content) ==
    With(IF a.parse_future # 0 /\ ~done(a.jobs[a.parse_future])
         THEN [a.jobs EXCEPT ![a.parse_future] = cancel(@)] ELSE a.jobs, LAMBDA jobs :
        [a EXCEPT !.parser = [content |-> file_content, project |-> None],
                  !.load_btn = "disabled",
                  !.jobs = submit(jobs, file_content),
                  !.parse_future = Len(jobs) + 1,
                  !.timers = @ + 1])

\* a variant of _poll_parse_future that does not set the timer again when
\* the future is not done
poll_parse_future_once(a) ==
    IF a.parse_future = 0 THEN a
    ELSE With(a.jobs[a.parse_future], LAMBDA fut :
         IF ~done(fut) THEN a
         ELSE IF fut.state = "cancelled" \/ fut.outcome = "raised"
         THEN [a EXCEPT !.parse_future = 0, !.load_btn = "normal"]
         ELSE [a EXCEPT !.parse_future = 0, !.load_btn = "normal",
                        !.project = <<fut.content>>,
                        !.parser = IF @ # None THEN [@ EXCEPT !.project = <<fut.content>>]
                                   ELSE @])

\* _poll_parse_future (lines 613-657), run by a timer
poll_parse_future(a) ==
    IF a.parse_future = 0 THEN a
    ELSE With(a.jobs[a.parse_future], LAMBDA fut :
         IF ~done(fut) THEN [a EXCEPT !.timers = @ + 1]
         ELSE IF fut.state = "cancelled" \/ fut.outcome = "raised"
         THEN [a EXCEPT !.parse_future = 0, !.load_btn = "normal"]
         ELSE [a EXCEPT !.parse_future = 0, !.load_btn = "normal",
                        !.project = <<fut.content>>,
                        !.parser = IF @ # None THEN [@ EXCEPT !.project = <<fut.content>>]
                                   ELSE @])

InitParseJobs ==
    /\ ParserIdle /\ call = None /\ buffer = None /\ tree = None
    /\ app = NewApp

\* the Import button of the toolbar, which does nothing while it is disabled
ImportButton ==
    /\ app.load_btn = "normal"
    /\ Len(app.jobs) < MaxJobs
    /\ \E file_content \in Contents : app' = load_file(app, file_content)
    /\ UNCHANGED <<parse_vars, call, buffer, tree>>

\* File > Import of the menu bar
ImportMenu ==
    /\ Len(app.jobs) < MaxJobs
    /\ \E file_content \in Contents : app' = load_file(app, file_content)
    /\ UNCHANGED <<parse_vars, call, buffer, tree>>

\* the worker thread takes the first pending future when it runs none
WorkerStart ==
    /\ \A k \in 1..Len(app.jobs) : app.jobs[k].state # "running"
    /\ \E k \in 1..Len(app.jobs) :
          /\ app.jobs[k].state = "pending"
          /\ \A m \in 1..(k - 1) : app.jobs[m].state # "pending"
          /\ app' = [app EXCEPT !.jobs[k].state = "running"]
    /\ UNCHANGED <<parse_vars, call, buffer, tree>>

\* parse_text_worker returns or raises
WorkerFinish ==
    /\ \E k \in 1..Len(app.jobs) :
          /\ app.jobs[k].state = "running"
          /\ \E outcome \in {"ok", "raised"} :
                app' = [app EXCEPT !.jobs[k].state = "finished", !.jobs[k].outcome = outcome]
    /\ UNCHANGED <<parse_vars, call, buffer, tree>>

\* a timer set by master.after fires
PollParseFuture ==
    /\ app.timers > 0
    /\ app' = poll_parse_future([app EXCEPT !.timers = @ - 1])
    /\ UNCHANGED <<parse_vars, call, buffer, tree>>

NextParseJobs == ImportButton \/ ImportMenu \/ WorkerStart \/ WorkerFinish \/ PollParseFuture
SpecParseJobs == InitParseJobs /\ [][NextParseJobs]_vars

\* the jobs that are queued or running
InFlight(jobs) == {k \in 1..Len(jobs) : jobs[k].state \in {"pending", "running"}}

\* C26: at most one parse job is queued or running at any time, and the
\* worker runs at most one
C26_OneJobInFlight ==
    app # None =>
        /\ Cardinality(InFlight(app.jobs)) <= 1
        /\ Cardinality({k \in 1..Len(app.jobs) : app.jobs[k].state = "running"}) <= 1

\* ------------------------------------------------------------------------
\* tree_state.TreeState: the metadata and the check states of the tree items.
\* meta, checks and _key_index are dicts, which keep the order of insertion.
\* ------------------------------------------------------------------------
TreeNodeMeta(node_type, name, parent) ==
    [node_type |-> node_type, name |-> name, parent |-> parent]

NewTreeState == [meta |-> EmptyDict, checks |-> EmptyDict, key_index |-> EmptyDict]

\* (meta.node_type.name, meta.name, meta.parent), None for an item without metadata
logical_key_for_iid(ts, iid) ==
    IF DictHas(ts.meta, iid)
    THEN With(ts.meta.val[iid], LAMBDA meta : <<meta.node_type, meta.name, meta.parent>>)
    ELSE None

set_meta(ts, iid, meta) ==
    With([ts EXCEPT !.meta = DictPut(@, iid, meta)],
         LAMBDA ts1 : [ts1 EXCEPT !.key_index = DictPut(@, logical_key_for_iid(ts1, iid), iid)])

set_checked(ts, iid, state) == [ts EXCEPT !.checks = DictPut(@, iid, state)]

get_checked(ts, iid, default) ==
    IF DictHas(ts.checks, iid) THEN ts.checks.val[iid] ELSE default

\* one entry per checked item that has metadata, in the order of checks
serialize(ts) ==
    Concat([k \in 1..Len(ts.checks.keys) |->
              With(ts.checks.keys[k], LAMBDA iid :
                  IF logical_key_for_iid(ts, iid) = None THEN <<>>
                  ELSE With(logical_key_for_iid(ts, iid), LAMBDA key :
                          << [node_type |-> key[1], name |-> key[2], parent |-> key[3],
                              state |-> ts.checks.val[iid]] >>))])

\* the dict comprehension of restore: a later entry replaces an earlier one
TargetStep(target, saved, k) ==
    DictPut(target, <<saved[k].node_type, saved[k].name, saved[k].parent>>, saved[k].state)

RestoreStepWith(target, checks, ts, k) ==
    With(logical_key_for_iid(ts, ts.meta.keys[k]), LAMBDA key :
        IF key # None /\ DictHas(target, key)
        THEN DictPut(checks, ts.meta.keys[k], target.val[key])
        ELSE checks)

restore(ts, saved) ==
    With(Fold(TargetStep, saved, 1, Len(saved), EmptyDict), LAMBDA target :
        [ts EXCEPT !.checks =
            Fold(LAMBDA checks, s, k : RestoreStepWith(target, checks, s, k),
                 ts, 1, Len(ts.meta.keys), ts.checks)])

\* ------------------------------------------------------------------------
\* Two TreeStates that register the same items, s being serialized into t
\* ------------------------------------------------------------------------
Iids == {"I001", "I002", "I003"}
Metas == {TreeNodeMeta("UDT_MEMBER", <<"A">>, <<"U">>), TreeNodeMeta("TAG", <<"A">>, <<"U">>)}

InitTreeState ==
    /\ ParserIdle /\ call = None /\ buffer = None /\ app = None
    /\ tree = [s |-> NewTreeState, t |-> NewTreeState, restored |-> FALSE]

\* both states register an item
SetMeta ==
    /\ ~tree.restored
    /\ \E iid \in Iids : \E meta \in Metas :
          /\ ~DictHas(tree.s.meta, iid)
          /\ tree' = [tree EXCEPT !.s = set_meta(@, iid, meta), !.t = set_meta(@, iid, meta)]
    /\ UNCHANGED <<parse_vars, call, buffer, app>>

\* the state that is saved records a check state
SetCheckedSaved ==
    /\ ~tree.restored
    /\ \E iid \in Iids : \E state \in BOOLEAN :
          tree' = [tree EXCEPT !.s = set_checked(@, iid, state)]
    /\ UNCHANGED <<parse_vars, call, buffer, app>>

\* the state that is restored had a check state before
SetCheckedBefore ==
    /\ ~tree.restored
    /\ \E iid \in Iids : \E state \in BOOLEAN :
          /\ DictHas(tree.t.meta, iid)
          /\ ~DictHas(tree.t.checks, iid)
          /\ tree' = [tree EXCEPT !.t = set_checked(@, iid, state)]
    /\ UNCHANGED <<parse_vars, call, buffer, app>>

\* t.restore(s.serialize())
Restore ==
    /\ ~tree.restored
    /\ tree' = [tree EXCEPT !.t = restore(@, serialize(tree.s)), !.restored = TRUE]
    /\ UNCHANGED <<parse_vars, call, buffer, app>>

NextTreeState == SetMeta \/ SetCheckedSaved \/ SetCheckedBefore \/ Restore
SpecTreeState == InitTreeState /\ [][NextTreeState]_vars

\* C27: after t.restore(s.serialize()), t gives every item that has metadata
\* and a recorded check state in s the check state it has in s
C27_RestoreGivesSavedStates ==
    (tree # None /\ tree.restored) =>
        \A iid \in Iids :
            (DictHas(tree.s.meta, iid) /\ DictHas(tree.s.checks, iid)) =>
                get_checked(tree.t, iid, FALSE) = get_checked(tree.s, iid, FALSE)

\* ------------------------------------------------------------------------
\* The tree widget beside a TreeState: widget[iid] is tree.parent(iid), Root
\* for a top-level item, and tree.get_children(p) are the items whose parent
\* is p.
\* ------------------------------------------------------------------------
Root == ""
\* selected_item_id when no item is selected: None, which the code tests by
\* truth like the empty item id
NoItem == ""
TreeItems == <<"I001", "I002", "I003", "I004">>
get_children(widget, p) ==
    SelectSeq(TreeItems, LAMBDA ch : widget[ch] = p)
ChildrenOf(widget, p) == {ch \in DOMAIN widget : widget[ch] = p}

\* the body of the while loop of update_parent_states for one parent
ParentStep(ts, widget, parent) ==
    With(\E k \in 1..Len(get_children(widget, parent)) :
            get_checked(ts, get_children(widget, parent)[k], FALSE),
         LAMBDA new_state :
            IF get_checked(ts, parent, FALSE) # new_state
            THEN set_checked(ts, parent, new_state)
            ELSE ts)

\* while parent: ...; parent = tree.parent(parent)
RECURSIVE WalkUp(_, _, _)
WalkUp(ts, widget, parent) ==
    IF parent = Root THEN ts
    ELSE WalkUp(ParentStep(ts, widget, parent), widget, widget[parent])

\* a variant that reconciles only the direct parent of every item
update_parent_states_direct(ts, widget) ==
    Fold(LAMBDA st, keys, k :
            IF widget[keys[k]] = Root THEN st ELSE ParentStep(st, widget, widget[keys[k]]),
         ts.meta.keys, 1, Len(ts.meta.keys), ts)

\* for iid in list(self.meta.keys()): walk from tree.parent(iid) to the top
update_parent_states(ts, widget) ==
    Fold(LAMBDA st, keys, k : WalkUp(st, widget, widget[keys[k]]),
         ts.meta.keys, 1, Len(ts.meta.keys), ts)

\* the value update_parent_states returns: the state of the anchor, or None
anchor_state(ts, selected_item_id) ==
    IF selected_item_id = NoItem THEN None ELSE <<get_checked(ts, selected_item_id, FALSE)>>

\* the downward part of _set_state: the item and all its descendants
RECURSIVE set_state_down(_, _, _, _)
set_state_down(ts, widget, item_id, state) ==
    With(get_children(widget, item_id), LAMBDA chs :
        Fold(LAMBDA st, cs, k : set_state_down(st, widget, cs[k], state),
             chs, 1, Len(chs), set_checked(ts, item_id, state)))

\* _set_state(item_id, state, bubble_up=True) on [state, widget, selected_item_id, select_var]
set_state(t, item_id, state) ==
    With(update_parent_states(set_state_down(t.state, t.widget, item_id, state), t.widget),
         LAMBDA ts :
            [t EXCEPT !.state = ts,
                      !.select_var = IF anchor_state(ts, t.selected_item_id) # None
                                     THEN anchor_state(ts, t.selected_item_id)[1] ELSE @])

\* _restore_checkbox_states(saved)
restore_checkbox_states(t, saved) ==
    With(update_parent_states(restore(t.state, saved), t.widget), LAMBDA ts :
        [t EXCEPT !.state = ts,
                  !.select_var = IF t.selected_item_id # NoItem
                                 THEN get_checked(ts, t.selected_item_id, FALSE) ELSE @])

\* ------------------------------------------------------------------------
\* A tree of registered items in any shape, with any check states
\* ------------------------------------------------------------------------
ItemSet == {TreeItems[k] : k \in 1..Len(TreeItems)}

RECURSIVE Up(_, _, _)
Up(widget, i, n) == IF n = 0 \/ i = Root THEN i ELSE Up(widget, widget[i], n - 1)

\* every assignment of parents that has no cycle
Forests == {w \in [ItemSet -> ItemSet \cup {Root}] :
               \A i \in ItemSet : Up(w, i, Len(TreeItems)) = Root}

ItemMeta(iid) == TreeNodeMeta("TAG", <<iid>>, None)

\* the items registered in the order of TreeItems; c[iid] is the check state
\* recorded at registration, "unset" for none
Registered(c) ==
    Fold(LAMBDA ts, items, k :
            With(set_meta(ts, items[k], ItemMeta(items[k])), LAMBDA ts1 :
                IF c[items[k]] = "unset" THEN ts1
                ELSE set_checked(ts1, items[k], c[items[k]] = "checked")),
         TreeItems, 1, Len(TreeItems), NewTreeState)

SavedStates ==
    {<<>>} \cup
    {<< [node_type |-> "TAG", name |-> <<iid>>, parent |-> None, state |-> b] >> :
        iid \in {TreeItems[1], TreeItems[Len(TreeItems)]}, b \in BOOLEAN}

InitBubble ==
    /\ ParserIdle /\ call = None /\ buffer = None /\ app = None
    /\ \E w \in Forests : \E c \in [ItemSet -> {"checked", "unchecked", "unset"}] :
       \E sel \in {NoItem, TreeItems[1]} :
          tree = [state |-> Registered(c), widget |-> w, selected_item_id |-> sel,
                  select_var |-> FALSE, updated |-> FALSE]

\* update_parent_states(self.tree, None)
UpdateParentStates ==
    /\ tree' = [tree EXCEPT !.state = update_parent_states(@, tree.widget), !.updated = TRUE]
    /\ UNCHANGED <<parse_vars, call, buffer, app>>

\* _set_state(iid, state, bubble_up=True)
SetState ==
    /\ \E iid \in ItemSet : \E state \in BOOLEAN :
          tree' = [set_state(tree, iid, state) EXCEPT !.updated = TRUE]
    /\ UNCHANGED <<parse_vars, call, buffer, app>>

RestoreCheckboxStates ==
    /\ \E saved \in SavedStates :
          tree' = [restore_checkbox_states(tree, saved) EXCEPT !.updated = TRUE]
    /\ UNCHANGED <<parse_vars, call, buffer, app>>

NextBubble == UpdateParentStates \/ SetState \/ RestoreCheckboxStates
SpecBubble == InitBubble /\ [][NextBubble]_vars

\* C28: after update_parent_states has returned, every item that has a child
\* is checked iff one of its children is checked
C28_ParentIffSomeChild ==
    (tree # None /\ tree.updated) =>
        \A p \in ItemSet :
            ChildrenOf(tree.widget, p) # {} =>
                (get_checked(tree.state, p, FALSE)
                    <=> \E ch \in ChildrenOf(tree.widget, p) : get_checked(tree.state, ch, FALSE))

\* a chain of three items below one another, reconciled, with the lowest
\* registered first and checked, beside an item with an unchecked child
C28_Witness ==
    /\ tree # None /\ tree.updated
    /\ tree.widget["I001"] = "I002" /\ tree.widget["I002"] = "I003"
    /\ tree.widget["I003"] = Root /\ tree.widget["I004"] = "I003"
    /\ get_checked(tree.state, "I001", FALSE) /\ get_checked(tree.state, "I003", FALSE)
    /\ ~get_checked(tree.state, "I004", FALSE)

\* ------------------------------------------------------------------------
\* gui.py: merging an updated L5K into the project. A logical key is
\* <<kind, name, parent>>, parent being None for a top-level entity.
\* ------------------------------------------------------------------------
DictPop(d, k) ==
    [keys |-> SelectSeq(d.keys, LAMBDA x : x # k),
     val |-> [x \in (DOMAIN d.val) \ {k} |-> d.val[x]]]

\* the keys of one UDT: a child is filed in children under its own name
UdtKeys(udt) ==
    {<<"UDT", udt.name, None>>}
    \cup {<<"UDT_MEMBER", udt.objs[udt.members.val[m]].name, udt.name>> : m \in DictKeys(udt.members)}
    \cup UNION {{<<"UDT_MEMBER", c, udt.name>> : c \in DictKeys(udt.objs[udt.members.val[m]].children)} :
                  m \in DictKeys(udt.members)}

AoiKeys(aoi) ==
    {<<"AOI", aoi.name, None>>}
    \cup {<<"AOI_PARAMETER", aoi.parameters.val[p].name, aoi.name>> : p \in DictKeys(aoi.parameters)}
    \cup {<<"AOI_LOCAL_TAG", aoi.localtags.val[l].name, aoi.name>> : l \in DictKeys(aoi.localtags)}

keys_for_project(project) ==
    UNION {UdtKeys(project.udts.val[n]) : n \in DictKeys(project.udts)}
    \cup UNION {AoiKeys(project.aois.val[n]) : n \in DictKeys(project.aois)}
    \cup {<<"TAG", n, None>> : n \in DictKeys(project.tags)}
    \cup UNION {{<<"PROGRAM_TAG", t, pn>> : t \in DictKeys(project.programs.val[pn].tags)} :
                  pn \in DictKeys(project.programs)}

\* sorted(): tuples compare by kind, then name, then parent
KindOrder == <<"AOI", "AOI_LOCAL_TAG", "AOI_PARAMETER", "PROGRAM_TAG", "TAG", "UDT", "UDT_MEMBER">>
NameOrder == <<None, <<"I">>, <<"P">>, <<"U">>, <<"a">>, <<"b">>, <<"l">>, <<"p">>, <<"t">>, <<"x">> >>
RankIn(order, x) == CHOOSE k \in 1..Len(order) : order[k] = x
KeyBefore(a, b) ==
    \/ RankIn(KindOrder, a[1]) < RankIn(KindOrder, b[1])
    \/ a[1] = b[1] /\ RankIn(NameOrder, a[2]) < RankIn(NameOrder, b[2])
    \/ a[1] = b[1] /\ a[2] = b[2] /\ RankIn(NameOrder, a[3]) < RankIn(NameOrder, b[3])

RECURSIVE sorted(_)
sorted(S) ==
    IF S = {} THEN <<>>
    ELSE With(CHOOSE x \in S : \A y \in S \ {x} : KeyBefore(x, y),
              LAMBDA first : <<first>> \o sorted(S \ {first}))

\* udt.members[name] = member, for a member object of another project
put_member(udt, member) ==
    [udt EXCEPT !.objs = Append(@, member),
                !.members = DictPut(@, member.name, Len(udt.objs) + 1)]

\* one iteration of the loop over selected_added
AddStep(project, new_project, key) ==
    With([kind |-> key[1], name |-> key[2], parent |-> key[3]], LAMBDA k :
        IF k.kind = "UDT" /\ DictHas(new_project.udts, k.name)
        THEN [project EXCEPT !.udts = DictPut(@, k.name, new_project.udts.val[k.name])]
        ELSE IF k.kind = "UDT_MEMBER" /\ k.parent # None /\ DictHas(new_project.udts, k.parent)
                /\ DictHas(project.udts, k.parent)
        THEN With(new_project.udts.val[k.parent], LAMBDA src :
                IF DictHas(src.members, k.name)
                THEN [project EXCEPT !.udts.val[k.parent] =
                         put_member(@, src.objs[src.members.val[k.name]])]
                ELSE project)
        ELSE IF k.kind = "AOI" /\ DictHas(new_project.aois, k.name)
        THEN [project EXCEPT !.aois = DictPut(@, k.name, new_project.aois.val[k.name])]
        ELSE IF k.kind = "AOI_PARAMETER" /\ k.parent # None /\ DictHas(new_project.aois, k.parent)
                /\ DictHas(project.aois, k.parent)
        THEN IF DictHas(new_project.aois.val[k.parent].parameters, k.name)
             THEN [project EXCEPT !.aois.val[k.parent].parameters =
                      DictPut(@, k.name, new_project.aois.val[k.parent].parameters.val[k.name])]
             ELSE project
        ELSE IF k.kind = "AOI_LOCAL_TAG" /\ k.parent # None /\ DictHas(new_project.aois, k.parent)
                /\ DictHas(project.aois, k.parent)
        THEN IF DictHas(new_project.aois.val[k.parent].localtags, k.name)
             THEN [project EXCEPT !.aois.val[k.parent].localtags =
                      DictPut(@, k.name, new_project.aois.val[k.parent].localtags.val[k.name])]
             ELSE project
        ELSE IF k.kind = "TAG" /\ DictHas(new_project.tags, k.name)
        THEN [project EXCEPT !.tags = DictPut(@, k.name, new_project.tags.val[k.name])]
        ELSE IF k.kind = "PROGRAM_TAG" /\ k.parent # None /\ DictHas(new_project.programs, k.parent)
        THEN IF ~DictHas(project.programs, k.parent)
             THEN [project EXCEPT !.programs =
                      DictPut(@, k.parent, new_project.programs.val[k.parent])]
             ELSE IF DictHas(new_project.programs.val[k.parent].tags, k.name)
             THEN [project EXCEPT !.programs.val[k.parent].tags =
                      DictPut(@, k.name, new_project.programs.val[k.parent].tags.val[k.name])]
             ELSE project
        ELSE project)

\* members.pop(name), and children.pop(name) on every member that has children
pop_member(udt, name) ==
    [udt EXCEPT !.members = DictPop(@, name),
                !.objs = [i \in 1..Len(udt.objs) |->
                             IF i \in {udt.members.val[m] : m \in DictKeys(udt.members) \ {name}}
                             THEN [udt.objs[i] EXCEPT !.children = DictPop(@, name)]
                             ELSE udt.objs[i]]]

\* one iteration of the loop over selected_removed
RemoveStep(project, key) ==
    With([kind |-> key[1], name |-> key[2], parent |-> key[3]], LAMBDA k :
        IF k.kind = "UDT" THEN [project EXCEPT !.udts = DictPop(@, k.name)]
        ELSE IF k.kind = "UDT_MEMBER" /\ k.parent # None /\ DictHas(project.udts, k.parent)
        THEN [project EXCEPT !.udts.val[k.parent] = pop_member(@, k.name)]
        ELSE IF k.kind = "AOI" THEN [project EXCEPT !.aois = DictPop(@, k.name)]
        ELSE IF k.kind = "AOI_PARAMETER" /\ k.parent # None /\ DictHas(project.aois, k.parent)
        THEN [project EXCEPT !.aois.val[k.parent].parameters = DictPop(@, k.name)]
        ELSE IF k.kind = "AOI_LOCAL_TAG" /\ k.parent # None /\ DictHas(project.aois, k.parent)
        THEN [project EXCEPT !.aois.val[k.parent].localtags = DictPop(@, k.name)]
        ELSE IF k.kind = "TAG" THEN [project EXCEPT !.tags = DictPop(@, k.name)]
        ELSE IF k.kind = "PROGRAM_TAG" /\ k.parent # None /\ DictHas(project.programs, k.parent)
        THEN [project EXCEPT !.programs.val[k.parent].tags = DictPop(@, k.name)]
        ELSE project)

apply_merge_changes(project, new_project, selected_added, selected_removed) ==
    Fold(LAMBDA pr, sel, k : RemoveStep(pr, sel[k]),
         selected_removed, 1, Len(selected_removed),
         Fold(LAMBDA pr, sel, k : AddStep(pr, new_project, sel[k]),
              selected_added, 1, Len(selected_added), project))

\* ------------------------------------------------------------------------
\* Projects to merge: a type U with members a and b, an instruction I with a
\* parameter and a local tag, a controller tag t, a program P with a tag x
\* ------------------------------------------------------------------------
DintMember(n) == UDTMember(n, <<"DINT">>, <<>>, <<n, " ", ":", " ", "DINT", ";">>)
DintTag(n) == Tag(n, <<"DINT">>, <<>>, <<n, " ", ":", " ", "DINT", ";">>)

ProjectOf(members, instruction, tag, program) ==
    [L5KProject EXCEPT
        !.udts = IF members = <<>> THEN @
                 ELSE DictPut(@, <<"U">>,
                        Fold(LAMBDA udt, ms, k : add_member(udt, DintMember(ms[k])),
                             members, 1, Len(members), UDT(<<"U">>))),
        !.aois = IF ~instruction THEN @
                 ELSE DictPut(@, <<"I">>,
                        [AOI(<<"I">>) EXCEPT
                            !.parameters = DictPut(@, <<"p">>,
                                AOIParameter(<<"p">>, <<"DINT">>, <<>>, <<"p", " ", ":", " ", "DINT", ";">>)),
                            !.localtags = DictPut(@, <<"l">>,
                                AOILocalTag(<<"l">>, <<"DINT">>, <<>>, <<"l", " ", ":", " ", "DINT", ";">>))]),
        !.tags = IF ~tag THEN @ ELSE DictPut(@, <<"t">>, DintTag(<<"t">>)),
        !.programs = IF ~program THEN @
                     ELSE DictPut(@, <<"P">>,
                            [Program(<<"P">>, <<>>) EXCEPT !.tags = DictPut(@, <<"x">>, DintTag(<<"x">>))])]

MergeProjects ==
    {ProjectOf(members, instruction, tag, program) :
        members \in {<<>>, << <<"a">> >>, << <<"a">>, <<"b">> >>},
        instruction \in BOOLEAN, tag \in BOOLEAN, program \in BOOLEAN}

\* the merges that are applied in one behaviour
MaxMerges == 1

NoMerge == [open |-> FALSE, new_project |-> L5KProject, added |-> <<>>, removed |-> <<>>]
NotApplied == [done |-> FALSE, old_keys |-> {}, added |-> {}, removed |-> {}]

InitMerge ==
    /\ ParserIdle /\ call = None /\ buffer = None /\ tree = None
    /\ \E project \in MergeProjects :
          app = [project |-> project, merge |-> NoMerge, applied |-> NotApplied, merges |-> 0]

\* Merge Updated L5K: the updated file is parsed and the preview shows the diff
MergeUpdatedL5K ==
    /\ ~app.merge.open
    /\ app.merges < MaxMerges
    /\ \E new_project \in MergeProjects :
          app' = [app EXCEPT
                    !.merge = [open |-> TRUE, new_project |-> new_project,
                               added |-> sorted(keys_for_project(new_project)
                                                    \ keys_for_project(app.project)),
                               removed |-> sorted(keys_for_project(app.project)
                                                    \ keys_for_project(new_project))],
                    !.applied = NotApplied]
    /\ UNCHANGED <<parse_vars, call, buffer, tree>>

\* Apply, with any selection of the two list boxes
ApplyMerge ==
    /\ app.merge.open
    /\ \E A \in SUBSET {app.merge.added[k] : k \in 1..Len(app.merge.added)} :
       \E R \in SUBSET {app.merge.removed[k] : k \in 1..Len(app.merge.removed)} :
          app' = [app EXCEPT
                    !.project = apply_merge_changes(@, app.merge.new_project,
                                    SelectSeq(app.merge.added, LAMBDA key : key \in A),
                                    SelectSeq(app.merge.removed, LAMBDA key : key \in R)),
                    !.merge = NoMerge,
                    !.merges = @ + 1,
                    !.applied = [done |-> TRUE, old_keys |-> keys_for_project(app.project),
                                 added |-> A, removed |-> R]]
    /\ UNCHANGED <<parse_vars, call, buffer, tree>>

\* Cancel
CancelMerge ==
    /\ app.merge.open
    /\ app' = [app EXCEPT !.merge = NoMerge]
    /\ UNCHANGED <<parse_vars, call, buffer, tree>>

NextMerge == MergeUpdatedL5K \/ ApplyMerge \/ CancelMerge
SpecMerge == InitMerge /\ [][NextMerge]_vars

\* C29: after the approved additions A and removals R have been applied, the
\* keys of the project are (old keys \cup A) \ R
C29_OnlyApprovedKeysChange ==
    (app # None /\ app.applied.done) =>
        keys_for_project(app.project)
            = (app.applied.old_keys \cup app.applied.added) \ app.applied.removed

\* ------------------------------------------------------------------------
\* L5KParser.parse called on a parser p whose lines are ls: _parse_header,
\* _parse_structures with fresh local state on the project and the log that
\* p holds, then _resolve_nested_types: [p, raised]
\* ------------------------------------------------------------------------
parse(p, ls) ==
    resolve_nested_types(
        [Scan([NewParser EXCEPT !.project = p.project,
                                !.corrected_tags_log = p.corrected_tags_log,
                                !.controller_header_lines = p.controller_header_lines,
                                !.controller_name = p.controller_name],
              ls)
            EXCEPT !.header_text = parse_header(ls)])

\* the end of the first call of parse
FinishParse ==
    /\ passes = 0
    /\ ResolveNestedTypes

\* a second call of parse on the same parser; output holds what it returns
ParseAgain ==
    /\ passes = 1
    /\ ~raised
    /\ \E r \in {parse(parser, lines)} :
          /\ parser' = r.p
          /\ raised' = r.raised
          /\ output' = IF r.raised THEN NoOutput
                       ELSE [by |-> "parse", project |-> r.p.project,
                             corrected_tags_log |-> r.p.corrected_tags_log]
    /\ passes' = passes + 1
    /\ UNCHANGED lines
    /\ UNCHANGED beside

NextParseTwice == ReadFileLine \/ FinishParse \/ ParseAgain
SpecParseTwice == InitFile /\ [][NextParseTwice]_vars

\* C30: a second call of parse on the same parser returns the model content
\* and the correction log that a first call on the same text returns
C30_SecondParseReturnsTheSame ==
    output.by = "parse" =>
        LET first == parse(NewParser, lines)
        IN /\ ~first.raised
           /\ output.project = first.p.project
           /\ output.corrected_tags_log = first.p.corrected_tags_log

\* ------------------------------------------------------------------------
\* Files whose lines open and close instruction definitions and their
\* sections in any order
\* ------------------------------------------------------------------------
SectionLines ==
    {HeaderOf(<<"A">>), EndInstruction, <<"END_ENCODED_DATA">>,
     <<"PARAMETERS">>, <<"END_PARAMETERS">>, <<"LOCAL_TAGS">>, <<"END_LOCAL_TAGS">>,
     OfLine("P", "K", "3"), LocalLine("K", "DINT")}
        \cup {EncodedThreeLines[k] : k \in 1..Len(EncodedThreeLines)}

\* the longest file read
MaxSectionLines == 4

InitSections == InitWith(<<>>)
ReadSectionLine == ReadLine(SectionLines, MaxSectionLines)
NextSections == ReadSectionLine \/ ResolveNestedTypes
SpecSections == InitSections /\ [][NextSections]_vars

\* C31: in no state of _parse_structures are in_aoi_params and
\* in_aoi_localtags both true
C31_SectionsExclusive ==
    ~(parser.state.in_aoi_params /\ parser.state.in_aoi_localtags)

\* C32: in_aoi_params or in_aoi_localtags being true implies in_aoi is true
C32_SectionsInsideInstruction ==
    (parser.state.in_aoi_params \/ parser.state.in_aoi_localtags) => parser.state.in_aoi

\* ------------------------------------------------------------------------
\* Files with TAG sections whose statements begin with any word, a word that
\* begins with a block keyword included
\* ------------------------------------------------------------------------
KeywordTags ==
    {<<" ", "PROGRAM_x", " ", ":", " ", "DINT", ";">>,
     <<" ", "CONTROLLER_x", " ", ":", " ", "DINT", ";">>}

\* a statement on two lines
OpenStatement == <<" ", "b", " ", ":", " ", "DINT", " ", "(", "Description", " ", ":=", " ", "\"", "d", "\"">>
CloseStatement == <<" ", ")", ";">>

SectionBlockLines == {<<"TAG">>, <<"END_TAG">>, <<"END_PROGRAM">>, ProgramLine(<<"P">>)}
SectionStatementLines ==
    KeywordTags \cup {OpenStatement, CloseStatement}
        \cup {StatementText(st) : st \in {s \in TagStatements : s.name = <<"a">>}}

\* the longest file read
MaxTagSectionLines == 5

InitTagSection == InitWith(<<ControllerLine>>)
ReadTagSectionLine == ReadLine(SectionBlockLines \cup SectionStatementLines, MaxTagSectionLines)
NextTagSection == ReadTagSectionLine \/ ResolveNestedTypes
SpecTagSection == InitTagSection /\ [][NextTagSection]_vars

\* the parser stands in the TAG section of a program, or of the controller
InProgramTags(p) ==
    p.pend.kind = "none" /\ p.state.in_program /\ p.state.in_prog_tags /\ p.state.cur_program # None
InControllerTags(p) ==
    p.pend.kind = "none" /\ p.state.in_controller /\ p.state.in_tags /\ ~p.state.in_program

\* the accumulator after chunk has been fed to b and a complete statement flushed
Fed(b, chunk) == IF Feed(b, chunk).complete THEN EmptyTagBuffer ELSE Feed(b, chunk).buf

\* C33: inside a tag section every statement line is fed to the section's
\* accumulator, changes no mode flag and creates no program, type definition
\* or instruction definition
C33_TagSectionLinesAreFed ==
    [][(/\ Len(lines') = Len(lines) + 1
        /\ lines'[Len(lines')] \in SectionStatementLines
        /\ InProgramTags(parser) \/ InControllerTags(parser))
       => /\ parser'.state = parser.state
          /\ DictKeys(parser'.project.programs) = DictKeys(parser.project.programs)
          /\ DictKeys(parser'.project.udts) = DictKeys(parser.project.udts)
          /\ DictKeys(parser'.project.aois) = DictKeys(parser.project.aois)
          /\ InProgramTags(parser) =>
                parser'.prog_tag_buf = Fed(parser.prog_tag_buf, Strip(lines'[Len(lines')]))
          /\ InControllerTags(parser) =>
                parser'.tag_buf = Fed(parser.tag_buf, Strip(lines'[Len(lines')]))]_vars

\* ------------------------------------------------------------------------
\* The loops of _parse_structures on a whole file: `lines` is the file, n its
\* length, call.i the index of the main loop and call.j the index of the
\* inner loop that parser.pend stands in (capture_block, the DATATYPE header,
\* the ENCODED_DATA metadata, _capture_controller_header).
\* ------------------------------------------------------------------------
\* a variant of `i = j` that leaves the main index where it was
next_index_stay(i, j) == i

\* i = j  (i = i_next) after an inner loop
next_index(i, j) == j

LoopLines ==
    {ControllerLine,
     <<"(", "a", " ", ":=", " ", "1", ",">>,
     <<" ", "b", " ", ":=", " ", "2", ")">>,
     <<"DATATYPE", " ", "U", " ", "(", "FamilyType", " ", ":=", " ", "NoFamily">>,
     <<"DATATYPE", " ", "(">>,
     <<" ", "DINT", " ", "a", " ", "(", "Radix", " ", ":=", " ", "Decimal">>,
     <<" ", ")", ";">>,
     EncodedThreeLines[1]}

\* the longest file
MaxLoopLines == 4

InitLoop ==
    /\ lines = <<>>
    /\ parser = NewParser
    /\ passes = 0 /\ raised = FALSE /\ output = NoOutput
    /\ call = [i |-> 0, j |-> 0, started |-> FALSE]
    /\ buffer = None /\ tree = None /\ app = None

\* the file gets one more line before it is parsed
WriteLine ==
    /\ ~call.started
    /\ Len(lines) < MaxLoopLines
    /\ \E raw \in LoopLines : lines' = Append(lines, raw)
    /\ UNCHANGED <<parser, passes, raised, output, call, buffer, tree, app>>

\* _parse_structures is called on the file
StartParse ==
    /\ ~call.started
    /\ call' = [call EXCEPT !.started = TRUE]
    /\ UNCHANGED <<parse_vars, buffer, tree, app>>

\* one turn of `while i < n` from its top to a continue, or into an inner loop
MainTurn ==
    /\ call.started
    /\ parser.pend.kind = "none"
    /\ call.i < Len(lines)
    /\ parser' = StepLine(parser, lines[call.i + 1])
    /\ call' = IF parser'.pend.kind = "none"
               THEN [call EXCEPT !.i = @ + 1, !.j = call.i + 1]
               ELSE [call EXCEPT !.j = call.i + 1]
    /\ UNCHANGED <<lines, passes, raised, output, buffer, tree, app>>

\* one turn of the inner loop, or its end at j = n; the main loop goes on at j
InnerTurn ==
    /\ call.started
    /\ parser.pend.kind # "none"
    /\ IF /\ call.j < Len(lines)
          /\ parser.pend.kind = "ctrl_peek" => StartsWith(LStrip(lines[call.j + 1]), "(")
       THEN /\ parser' = StepLine(parser, lines[call.j + 1])
            /\ call' = IF parser'.pend.kind = "none"
                       THEN [call EXCEPT !.i = next_index(call.i, call.j + 1), !.j = @ + 1]
                       ELSE [call EXCEPT !.j = @ + 1]
       ELSE /\ parser' = [parser EXCEPT !.pend = NoPend]
            /\ call' = [call EXCEPT !.i = next_index(call.i, call.j)]
    /\ UNCHANGED <<lines, passes, raised, output, buffer, tree, app>>

NextLoop == WriteLine \/ StartParse \/ MainTurn \/ InnerTurn
\* The loop has a turn to take while a capture is pending or a line is left:
\* MainTurn is enabled exactly when nothing is pending and call.i < Len(lines),
\* InnerTurn exactly when a capture is pending.
Running == call.started /\ (parser.pend.kind # "none" \/ call.i < Len(lines))

\* The interpreter keeps executing: the call is made, and a turn of the loop
\* that can be taken is taken.  The second conjunct is WF_vars(MainTurn \/ InnerTurn)
\* with its enabling condition written out as Running.
LoopFairness == WF_vars(StartParse) /\ ([]<>(~Running) \/ []<><<MainTurn \/ InnerTurn>>_vars)

SpecLoop == InitLoop /\ [][NextLoop]_vars /\ LoopFairness

\* C34: every turn of the main loop of _parse_structures advances the line
\* index by at least one and never past the end of the input, an inner loop
\* never reads past the end, and the loop ends
C34_ParseStructuresTerminates ==
    /\ [][call.started =>
             /\ call'.i <= Len(lines) /\ call'.j <= Len(lines)
             /\ parser'.pend.kind = "none" => call'.i > call.i
             /\ parser'.pend.kind # "none" => call'.i = call.i /\ call'.j > call.i]_vars
    /\ <>(call.started /\ parser.pend.kind = "none" /\ call.i = Len(lines))

\* the loop has ended on a file whose last block is not terminated
C34_Witness ==
    /\ call # None /\ call.started /\ parser.pend.kind = "none" /\ call.i = Len(lines)
    /\ Len(lines) = MaxLoopLines
    /\ lines[1] = <<"DATATYPE", " ", "U", " ", "(", "FamilyType", " ", ":=", " ", "NoFamily">>
    /\ lines[3] = <<" ", "DINT", " ", "a", " ", "(", "Radix", " ", ":=", " ", "Decimal">>
    /\ lines[4] = EncodedThreeLines[1]

\* ------------------------------------------------------------------------
\* Resolution of parameters whose definitions span several lines
\* ------------------------------------------------------------------------
\* the first lines of parameter statements with a dotted type: the OF form
\* and the ':' form with an attribute group that closes on the next line,
\* and a one-line OF form with wider gaps
OfOpen == <<" ", "p", " ", "OF", " ", "K", ".", "3", " ", "(">>
ColonOpen == <<" ", "q", " ", ":", " ", "K", ".", "3", " ", "(">>
WideOf == <<" ", "r", TAB, "OF", " ", " ", "K", ".", "3", ";">>

RewriteLines == {OfOpen, ColonOpen, WideOf, ParamClose, <<"END_PARAMETERS">>, <<"LOCAL_TAGS">>,
                 LocalLine("K", "DINT")}

\* the most lines read after the opening of the PARAMETERS section
MaxRewriteLines == 5

InitRewrite == InitWith(<<HeaderOf(<<"A">>), <<"PARAMETERS">>>>)
ReadRewriteLine == ReadLine(RewriteLines, MaxRewriteLines + 2)
NextRewrite == ReadRewriteLine \/ ResolveNestedTypes
SpecRewrite == InitRewrite /\ [][NextRewrite]_vars

\* first is lead, name, a gap, the declarator 'OF <type>' or ': <type>', and
\* rest, and now is lead, name, ' : <base>' and rest
Redeclared(first, now, name, type, base) ==
    \E n \in 1..Len(first), d \in 1..Len(first), t \in 1..Len(first) :
        /\ \A k \in 1..(n - 1) : IsWs(first[k])
        /\ <<first[n]>> = name
        /\ n < d /\ \A k \in (n + 1)..(d - 1) : IsWs(first[k])
        /\ first[d] \in {"OF", ":"}
        /\ d < t /\ \A k \in (d + 1)..(t - 1) : IsWs(first[k])
        /\ t + Len(type) - 1 <= Len(first)
        /\ Slice(first, t, t + Len(type) - 1) = type
        /\ now = Slice(first, 1, n) \o <<" ", ":", " ">> \o base \o From(first, t + Len(type))

\* C35: a parameter that resolution rewrites keeps every line of its
\* definition but the first, whose declarator becomes ': <resolved type>',
\* and is marked corrected; resolution leaves every local tag and every
\* other parameter as it was
C35_OnlyFirstLineRewritten ==
    [][passes' = passes + 1 /\ ~raised' =>
        /\ DictKeys(parser'.project.aois) = DictKeys(parser.project.aois)
        /\ \A a \in DictKeys(parser.project.aois) :
             LET old == parser.project.aois.val[a]
                 new == parser'.project.aois.val[a]
             IN /\ new.localtags = old.localtags
                /\ new.parameters.keys = old.parameters.keys
                /\ \A n \in DictKeys(old.parameters) :
                     LET o == old.parameters.val[n]
                         w == new.parameters.val[n]
                         ols == SplitLines(o.definition)
                         wls == SplitLines(w.definition)
                     IN IF w = o THEN TRUE
                        ELSE /\ Has(o.data_type, ".")
                             /\ w.data_type # o.data_type
                             /\ w.is_corrected
                             /\ w = [o EXCEPT !.data_type = w.data_type, !.is_corrected = TRUE,
                                              !.definition = w.definition]
                             /\ Len(wls) = Len(ols)
                             /\ \A k \in 2..Len(ols) : wls[k] = ols[k]
                             /\ Redeclared(ols[1], wls[1], o.name, o.data_type, w.data_type)]_vars

C35_Witness ==
    /\ passes = 1
    /\ DictHas(parser.project.aois, <<"A">>)
    /\ LET ps == parser.project.aois.val[<<"A">>].parameters
       IN /\ DictHas(ps, <<"p">>)
          /\ ps.val[<<"p">>].is_corrected
          /\ ps.val[<<"p">>].data_type = <<"BOOL">>
          /\ Len(SplitLines(ps.val[<<"p">>].definition)) = 2

\* ------------------------------------------------------------------------
\* get_selected_content on files with a TAG section of the controller and
\* of two programs
\* ------------------------------------------------------------------------
InitFilterProgramTags == InitWith(<<>>)
ReadProgramTagFile == ReadFile(TagFiles)
FilterProgramTags == GetSelectedContent(TagSelections)
NextFilterProgramTags == ReadProgramTagFile \/ ResolveNestedTypes \/ FilterProgramTags
SpecFilterProgramTags == InitFilterProgramTags /\ [][NextFilterProgramTags]_vars

\* C36: in the text get_selected_content writes, the TAG section of program
\* P holds statements for exactly the tags of P that program_tags[P] of the
\* selection names, whatever the selection's set of global tags
C36_ProgramTagsByProgramSelection ==
    output.by = "get_selected_content" =>
        \A n \in DictKeys(parser.project.programs) :
            NamesIn(Rows(output.text), <<"PROGRAM">> \o n, "TAG")
                = DictKeys(parser.project.programs.val[n].tags)
                     \cap SelGet(output.selection.program_tags, n)

\* ------------------------------------------------------------------------
\* Tag statements 'name : type;' without attributes and without a value
\* ------------------------------------------------------------------------
PlainTagLists == {<<>>, <<LocalLine("g", "DINT")>>, <<LocalLine("g", "DINT"), LocalLine("h", "INT")>>}

PlainTagFiles ==
    {<<ControllerLine, <<"TAG">>>> \o g \o <<<<"END_TAG">>, ProgramLine(<<"P">>), <<"TAG">>>> \o p
         \o <<<<"END_TAG">>, <<"END_PROGRAM">>, <<"END_CONTROLLER">>>> :
       g \in PlainTagLists, p \in PlainTagLists}

PlainTagSelections ==
    {Selection({}, <<>>, {}, <<>>, <<>>, t, <<"P">> :> pt) :
       t \in SUBSET {<<"g">>, <<"h">>}, pt \in SUBSET {<<"g">>, <<"h">>}}

InitPlainTags == InitWith(<<>>)
ReadPlainTagFile == ReadFile(PlainTagFiles)
ExportPlainTags == ExportWhitelist(PlainTagSelections)
NextPlainTags == ReadPlainTagFile \/ ResolveNestedTypes \/ ExportPlainTags
SpecPlainTags == InitPlainTags /\ [][NextPlainTags]_vars

\* the number of terminators a line ends with
RECURSIVE Terminators(_)
Terminators(l) == IF l # <<>> /\ l[Len(l)] = ";" THEN 1 + Terminators(Slice(l, 1, Len(l) - 1)) ELSE 0

\* C37: the data_type stored for a statement 'name : type;' of the
\* controller's or a program's TAG section is the type, without the
\* terminator, and export_whitelist ends each tag line with one ';'
C37_PlainTagTypeAndTerminator ==
    /\ \A n \in DictKeys(parser.project.tags) :
          parser.project.tags.val[n].data_type \in {<<"DINT">>, <<"INT">>}
    /\ \A q \in DictKeys(parser.project.programs) :
          \A n \in DictKeys(parser.project.programs.val[q].tags) :
             parser.project.programs.val[q].tags.val[n].data_type \in {<<"DINT">>, <<"INT">>}
    /\ output.by = "export_whitelist" =>
          \A r \in RowSet(Rows(output.text)) :
             (r.what = "item" /\ r.sect = "TAG") => Terminators(r.line) = 1

\* ------------------------------------------------------------------------
\* The view filter (view_filter.py, gui.py): the tree of a project with a
\* header and two controller tags.  _populate_tree inserts the same items in
\* the same order every time; the item ids stand for the items, since the
\* code carries nothing from one tree to the next by item id.
\* ------------------------------------------------------------------------
\* tree.parent of an item that tree.delete has removed
Deleted == "deleted"

FilterModes == {"all", "enabled", "disabled"}

\* the items _populate_tree inserts: their parents and their metadata
ProjectWidget ==
    (TreeItems[1] :> Root) @@ (TreeItems[2] :> Root)
        @@ (TreeItems[3] :> TreeItems[2]) @@ (TreeItems[4] :> TreeItems[2])
ProjectMeta ==
    (TreeItems[1] :> TreeNodeMeta("HEADER", <<"L5K Header">>, None))
        @@ (TreeItems[2] :> TreeNodeMeta("ROOT_CONTROLLER_TAGS", <<"Controller Tags">>, None))
        @@ (TreeItems[3] :> TreeNodeMeta("TAG", <<"T1">>, None))
        @@ (TreeItems[4] :> TreeNodeMeta("TAG", <<"T2">>, None))

\* dfs of apply_filter: the item is kept
RECURSIVE Keep(_, _, _, _)
Keep(ts, widget, iid, mode) ==
    \/ IF mode = "enabled" THEN get_checked(ts, iid, FALSE) ELSE ~get_checked(ts, iid, FALSE)
    \/ \E k \in 1..Len(get_children(widget, iid)) : Keep(ts, widget, get_children(widget, iid)[k], mode)

\* prune of apply_filter for one item: tree.delete, meta.pop, checks.pop
PruneStep(t, items, k) ==
    IF Keep(t.state, t.widget, items[k], t.filter_mode) THEN t
    ELSE [t EXCEPT !.pruned = @ \cup {items[k]}]

\* apply_filter(tree, state, mode): keep is computed on the whole tree, then
\* the items outside it are deleted
apply_filter(t) ==
    IF t.filter_mode = "all" THEN t
    ELSE With(Fold(PruneStep, TreeItems, 1, Len(TreeItems), t).pruned, LAMBDA gone :
            [t EXCEPT !.widget = [i \in ItemSet |-> IF i \in gone THEN Deleted ELSE @[i]],
                      !.state.meta = Fold(LAMBDA d, items, k :
                                              IF items[k] \in gone THEN DictPop(d, items[k]) ELSE d,
                                          TreeItems, 1, Len(TreeItems), @),
                      !.state.checks = Fold(LAMBDA d, items, k :
                                                IF items[k] \in gone THEN DictPop(d, items[k]) ELSE d,
                                            TreeItems, 1, Len(TreeItems), @)])

\* _populate_tree(saved_states): every node is inserted checked
populate_tree(t, saved_states) ==
    With([t EXCEPT !.widget = ProjectWidget,
                   !.pruned = {},
                   !.selected_item_id = NoItem,
                   !.state = Fold(LAMBDA ts, items, k :
                                      set_checked(set_meta(ts, items[k], ProjectMeta[items[k]]),
                                                  items[k], TRUE),
                                  TreeItems, 1, Len(TreeItems), NewTreeState)],
         LAMBDA t1 : apply_filter(IF saved_states # <<>>
                                  THEN restore_checkbox_states(t1, saved_states) ELSE t1))

\* _set_filter_mode(mode)
set_filter_mode(t, mode) ==
    populate_tree([t EXCEPT !.filter_mode = mode], serialize(t.state))

\* the check state of every item, "gone" for an item the tree does not hold
CheckStates(t) ==
    [i \in ItemSet |-> IF t.widget[i] = Deleted \/ ~DictHas(t.state.checks, i) THEN "gone"
                       ELSE IF t.state.checks.val[i] THEN "checked" ELSE "unchecked"]

\* `before` and `touched` are not state of the program: before holds the
\* check states when the filter was last "all" or a box was last set under
\* "all", and touched tells that a box was set under another mode since
InitFilter ==
    /\ ParserIdle /\ call = None /\ buffer = None /\ app = None
    /\ \E t \in {populate_tree([state |-> NewTreeState, widget |-> ProjectWidget,
                                selected_item_id |-> NoItem, select_var |-> FALSE,
                                filter_mode |-> "all", pruned |-> {},
                                before |-> <<>>, touched |-> FALSE], <<>>)} :
          tree = [t EXCEPT !.before = CheckStates(t)]

\* _on_tree_select and _toggle_selection on an item the tree shows, the
\* header excepted
ToggleSelection ==
    /\ \E iid \in ItemSet \ {TreeItems[1]} : \E state \in BOOLEAN :
          /\ tree.widget[iid] # Deleted
          /\ \E t \in {set_state([tree EXCEPT !.selected_item_id = iid], iid, state)} :
                tree' = IF tree.filter_mode = "all" THEN [t EXCEPT !.before = CheckStates(t)]
                        ELSE [t EXCEPT !.touched = TRUE]
    /\ UNCHANGED <<parse_vars, call, buffer, app>>

SetFilterMode ==
    /\ \E mode \in FilterModes :
       \E t \in {set_filter_mode(tree, mode)} :
          tree' = IF mode = "all" /\ tree.touched
                  THEN [t EXCEPT !.before = CheckStates(t), !.touched = FALSE]
                  ELSE t
    /\ UNCHANGED <<parse_vars, call, buffer, app>>

NextFilter == ToggleSelection \/ SetFilterMode
SpecFilter == InitFilter /\ [][NextFilter]_vars

\* C38: when the filter is "all" again after a sequence of _set_filter_mode
\* calls, the tree holds every item and every item has the check state it
\* had before the sequence
C38_FilterKeepsCheckStates ==
    (tree # None /\ tree.filter_mode = "all") =>
        /\ \A i \in ItemSet : tree.widget[i] # Deleted
        /\ CheckStates(tree) = tree.before

\* ------------------------------------------------------------------------
\* Open project and Close project beside the parse jobs
\* ------------------------------------------------------------------------
\* the project a project file holds
ProjectFiles == {"j"}

\* _open_project_json_path: a parser of the empty text around the project read
open_project_json_path(a, project) ==
    [a EXCEPT !.project = <<project>>, !.parser = [content |-> "", project |-> <<project>>]]

\* _discard_project_state
discard_project_state(a) == [a EXCEPT !.project = None, !.parser = None]

\* File > Open, with a file chosen and nothing unsaved
OpenProject ==
    /\ \E project \in ProjectFiles : app' = open_project_json_path(app, project)
    /\ UNCHANGED <<parse_vars, call, buffer, tree>>

\* File > Close
CloseProject ==
    /\ app' = discard_project_state(app)
    /\ UNCHANGED <<parse_vars, call, buffer, tree>>

InitProjectJobs == InitParseJobs
NextProjectJobs ==
    \/ ImportButton \/ ImportMenu \/ WorkerStart \/ WorkerFinish \/ PollParseFuture
    \/ OpenProject \/ CloseProject
SpecProjectJobs == InitProjectJobs /\ [][NextProjectJobs]_vars

\* _poll_parse_future takes the result of its future as the project
Adopts ==
    /\ app.parse_future # 0
    /\ app'.parse_future = 0
    /\ app.jobs[app.parse_future].state = "finished"
    /\ app.jobs[app.parse_future].outcome = "ok"

\* C39: when _poll_parse_future adopts a result, the project is the result
\* of the job submitted last, and self.parser is the parser _load_file made
\* from the content of that job
C39_AdoptedProjectHasItsParser ==
    [][Adopts => /\ app'.project = <<app.jobs[Len(app.jobs)].content>>
                 /\ app'.parser # None
                 /\ <<app'.parser.content>> = app'.project]_vars

\* ------------------------------------------------------------------------
\* The parse jobs with a worker thread and a Tk event loop that keep running
\* ------------------------------------------------------------------------
\* the executor's thread takes a queued job and finishes the job it runs, and
\* the event loop fires a timer that master.after has set
\* what a step of the worker or of a timer changes: the states of the
\* futures, the future polled, the timers set and the button
progress == <<[k \in 1..Len(app.jobs) |-> app.jobs[k].state],
              app.parse_future, app.timers, app.load_btn>>

ParseJobsFairness ==
    WF_progress(WorkerStart) /\ WF_progress(WorkerFinish) /\ WF_progress(PollParseFuture)

InitParseJobsLive == InitParseJobs
NextParseJobsLive == ImportButton \/ ImportMenu \/ WorkerStart \/ WorkerFinish \/ PollParseFuture
SpecParseJobsLive == InitParseJobsLive /\ [][NextParseJobsLive]_vars /\ ParseJobsFairness

\* C40: after _load_file has submitted a job and disabled the Import button,
\* the button is enabled again, whether the job returns, raises or is
\* cancelled by a further Import
C40_ImportButtonEnabledAgain ==
    (app.load_btn = "disabled") ~> (app.load_btn = "normal" /\ app.parse_future = 0)

\* a first job cancelled by a second Import, the second parse raised, and the
\* button enabled again
C40_Witness ==
    /\ app # None
    /\ Len(app.jobs) = 2
    /\ app.jobs[1].state = "cancelled"
    /\ app.jobs[2].state = "finished" /\ app.jobs[2].outcome = "raised"
    /\ app.parse_future = 0
    /\ app.load_btn = "normal"

====
